---- MODULE Spec2Model ----
(***************************************************************************)
(* Model of the pipelined core of src/emu64hdr.py (the same code is in     *)
(* src/n64emuhdrv1.1a.py): RegisterSet, Instruction, PipelineStage,        *)
(* Pipeline, R4300iCore, N64Bus, RDRAMMemory and N64System; and of the     *)
(* core without a pipeline and the N64System of src/N64EMU.py.             *)
(*                                                                         *)
(* Representation of 32-bit values.  The code keeps register, PC, address  *)
(* and data values in [0, 2^32) by "& 0xFFFFFFFF".  A 32-bit value v is    *)
(* written here as the record [h |-> v >> 16, l |-> v & 0xFFFF] of its    *)
(* two 16-bit halves, and the arithmetic below carries between the halves, *)
(* so that every operation is the code's operation modulo 2^32.            *)
(*                                                                         *)
(* Representation of Python objects.  The five PipelineStage objects made  *)
(* by Pipeline.__init__ are mutable and the stage list holds references to *)
(* them: pipeline.stages is the list of references (object ids 1..5) and   *)
(* pipeline.objs is the heap, object id -> [instr, value].                 *)
(* Python list index i is TLA+ sequence index i + 1.                       *)
(***************************************************************************)
EXTENDS Integers, Naturals, Sequences, FiniteSets, TLC

VARIABLES
    cpu,        \* the R4300iCore: registers, pipeline, counters, flags
    bus,        \* the N64Bus: its registrations, in order
    memory,     \* the RDRAMMemory: size, ram, rom
    ret,        \* the value the last call returned
    obs,        \* what the last call was and what it did to its collaborators
    calls,      \* number of advance/step/step_frame calls since construction or reset,
                \* or of load_rom/_write calls on the memory
    hist,       \* the instructions supplied by the last non-stalled advance calls
    emu,        \* the N64System of src/N64EMU.py (the core without a pipeline)
    app,        \* the N64EmuApp around the system: running, rom_path, widgets' texts
    stalls      \* of the steps the system made through its bus since construction or
                \* reset, the number whose advance was stalled

vars == <<cpu, bus, memory, ret, obs, calls, hist, emu, app, stalls>>

----------------------------------------------------------------------------
(* Bounds of the model *)

\* advance/step/step_frame calls explored after construction or a reset
MaxCalls == 5

\* advance calls explored when the pipeline is driven alone
MaxPipeCalls == 6

\* register_device calls explored on a bus
MaxRegs == 2

\* load_rom and write calls explored on a memory
MaxMemCalls == 2

\* step_frame is explored when it is among the first MaxFrameStart + 1 calls
\* after construction or a reset (a frame is FrameCycles steps)
MaxFrameStart == 1

\* frames a window's core runs before a stop or reset
MaxAppFrames == 2

\* tick callbacks a window's timer holds at once
MaxPending == 2

----------------------------------------------------------------------------
(* 32-bit words as records of two 16-bit halves *)

Half == 2^16

W32(h, l) == [h |-> h, l |-> l]

Zero32 == W32(0, 0)

\* v & 0xFFFFFFFF
Mask32(w) == W32(w.h % Half, w.l % Half)

\* (faulty variant) the sum without the "& 0xFFFFFFFF"
Add32_NoWrap(w, n) ==
    LET s == w.l + n
    IN  W32(w.h + (s \div Half), s % Half)

\* (w + n) & 0xFFFFFFFF for an integer n of small magnitude (n may be negative)
Add32(w, n) ==
    LET s == w.l + n
    IN  W32((w.h + (s \div Half)) % Half, s % Half)

\* v & 0x1FFFFFFF
Mask29(w) == W32(w.h % 8192, w.l)

\* Python's None, as an Instruction slot or a return value
None == [none |-> TRUE]

----------------------------------------------------------------------------
(* RegisterSet, Instruction, PipelineStage, Pipeline *)

NumRegs == 32

Depth == 5

OP_ADDIU == 8

Regs == 0 .. (NumRegs - 1)

PC_DEFAULT == W32(49088, 0)          \* 0xBFC00000

BOOT_VECTOR == W32(32768, 1024)      \* 0x80000400

RegisterSet ==
    [ gpr |-> [r \in Regs |-> Zero32],
      fpr |-> [r \in Regs |-> 0],
      pc  |-> PC_DEFAULT,
      hi  |-> 0,
      lo  |-> 0,
      cp0 |-> [status |-> W32(13312, 0), cause |-> 0, epc |-> 0, bad_vaddr |-> 0] ]

Instruction(op, s, t, d, imm) ==
    [opcode |-> op, rs |-> s, rt |-> t, rd |-> d, immediate |-> imm, target |-> 0]

PipelineStage == [instr |-> None, value |-> Zero32]

Pipeline ==
    [ stages |-> [i \in 1 .. Depth |-> i],
      objs   |-> [o \in 1 .. Depth |-> PipelineStage],
      stall  |-> FALSE ]

\* The stage object that Python's self.stages[i] refers to
Stage(pl, i) == pl.objs[pl.stages[i + 1]]

\* (faulty variant) a stalled advance that does not consume the flag
AdvanceStalled_KeepsStall(pl, registers) ==
    [pipeline |-> pl, registers |-> registers, ret |-> None]

\* (faulty variant) a stalled advance that still moves the PC
AdvanceStalled_BumpsPc(pl, registers) ==
    [ pipeline |-> [pl EXCEPT !.stall = FALSE],
      registers |-> [registers EXCEPT !.pc = Add32(@, 4)],
      ret |-> None ]

\* "if self.stall: self.stall = False; return None"
AdvanceStalled(pl, registers) ==
    [ pipeline |-> [pl EXCEPT !.stall = FALSE],
      registers |-> registers,
      ret |-> None ]

\* (faulty variant) writeback without the "rd != 0" test
WriteBack_NoZeroCheck(pl, registers) ==
    LET s4 == Stage(pl, 4)
    IN  IF s4.instr # None
        THEN [registers EXCEPT !.gpr[s4.instr.rd] = Mask32(s4.value)]
        ELSE registers

\* WB: "if self.stages[4].instr: rd = ...; if rd != 0: gpr[rd] = value & 0xFFFFFFFF"
WriteBack(pl, registers) ==
    LET s4 == Stage(pl, 4)
    IN  IF s4.instr # None /\ s4.instr.rd # 0
        THEN [registers EXCEPT !.gpr[s4.instr.rd] = Mask32(s4.value)]
        ELSE registers

\* Shift: "for i in range(4, 0, -1): self.stages[i] = self.stages[i - 1]"
\* copies references; stages[0] keeps its reference.
ShiftStages(stages) ==
    [i \in 1 .. Depth |-> IF i = 1 THEN stages[1] ELSE stages[i - 1]]

\* "self.stages[0].instr = new_instr": a write to the object stages[0] refers to
InsertInstr(objs, stages, new_instr) ==
    [objs EXCEPT ![stages[1]].instr = new_instr]

\* Decode + Execute on self.stages[1]
Execute(objs, stages, registers) ==
    LET o     == stages[2]
        instr == objs[o].instr
    IN  IF instr # None /\ instr.opcode = OP_ADDIU
        THEN [objs EXCEPT ![o].value = Add32(registers.gpr[instr.rs], instr.immediate)]
        ELSE objs

\* (faulty variant) the non-stalled path returning the PC it started with
AdvanceRun_ReturnsOldPc(pl, new_instr, registers) ==
    LET regs1   == WriteBack(pl, registers)
        stages1 == ShiftStages(pl.stages)
        objs1   == InsertInstr(pl.objs, stages1, new_instr)
        regs2   == [regs1 EXCEPT !.pc = Add32(regs1.pc, 4)]
        objs2   == Execute(objs1, stages1, regs2)
    IN  [ pipeline |-> [pl EXCEPT !.stages = stages1, !.objs = objs2],
          registers |-> regs2,
          ret |-> regs1.pc ]

\* The non-stalled path of Pipeline.advance
AdvanceRun(pl, new_instr, registers) ==
    LET regs1   == WriteBack(pl, registers)
        stages1 == ShiftStages(pl.stages)
        objs1   == InsertInstr(pl.objs, stages1, new_instr)
        regs2   == [regs1 EXCEPT !.pc = Add32(regs1.pc, 4)]
        objs2   == Execute(objs1, stages1, regs2)
    IN  [ pipeline |-> [pl EXCEPT !.stages = stages1, !.objs = objs2],
          registers |-> regs2,
          ret |-> regs2.pc ]

\* (faulty variant) the stall test clears the flag and falls through
PipelineAdvance_NoEarlyReturn(pl, new_instr, registers) ==
    AdvanceRun([pl EXCEPT !.stall = FALSE], new_instr, registers)

\* Pipeline.advance(new_instr, registers, mem_read, mem_write); neither
\* callable is used by the body.
PipelineAdvance(pl, new_instr, registers) ==
    IF pl.stall
    THEN AdvanceStalled(pl, registers)
    ELSE AdvanceRun(pl, new_instr, registers)

----------------------------------------------------------------------------
(* R4300iCore *)

R4300iCore ==
    [ registers |-> RegisterSet,
      pipeline |-> Pipeline,
      cycles |-> 0,
      instructions_executed |-> 0,
      exception_pending |-> FALSE,
      booted |-> FALSE ]

TraceEvery == 500

\* (faulty variant) reset that leaves the counters
CoreReset_KeepsCounters(c) ==
    [c EXCEPT !.registers = RegisterSet,
              !.pipeline = Pipeline,
              !.booted = FALSE]

\* (faulty variant) reset that leaves the pipeline
CoreReset_KeepsPipeline(c) ==
    [c EXCEPT !.registers = RegisterSet,
              !.cycles = 0,
              !.instructions_executed = 0,
              !.booted = FALSE]

\* (faulty variant) reset that leaves the booted flag
CoreReset_KeepsBooted(c) ==
    [c EXCEPT !.registers = RegisterSet,
              !.pipeline = Pipeline,
              !.cycles = 0,
              !.instructions_executed = 0]

\* R4300iCore.reset: exception_pending is not assigned
CoreReset(c) ==
    [c EXCEPT !.registers = RegisterSet,
              !.pipeline = Pipeline,
              !.cycles = 0,
              !.instructions_executed = 0,
              !.booted = FALSE]

\* Instruction(opcode=(word >> 26) & 0x3F, rs=(word >> 21) & 0x1F,
\*             rt=(word >> 16) & 0x1F, rd=(word >> 11) & 0x1F, immediate=word & 0xFFFF)
Decode(word) ==
    Instruction((word.h \div 1024) % 64,
                (word.h \div 32) % 32,
                word.h % 32,
                (word.l \div 2048) % 32,
                word.l % Half)

\* (faulty variant) the fetch address without the "& 0x1FFFFFFF"
FetchAddr_Unmasked(c) == Add32(c.registers.pc, -4)

\* (faulty variant) the fetch address without the "- 4"
FetchAddr_NoBack(c) == Mask29(c.registers.pc)

\* The address step passes to mem_read: (self.registers.pc - 4) & 0x1FFFFFFF
FetchAddr(c) == Mask29(Add32(c.registers.pc, -4))

\* (faulty variant) "return pc_new"
OrPc_PcNewOnly(pc_new, pc) == pc_new

\* "pc_new or self.registers.pc": None and 0 are falsy
OrPc(pc_new, pc) == IF pc_new = None \/ pc_new = Zero32 THEN pc ELSE pc_new

\* (faulty variant) the boot transition sets the flag and leaves the PC
BootTransition_NoPc(c) ==
    IF ~c.booted /\ c.cycles = 1
    THEN [c EXCEPT !.booted = TRUE]
    ELSE c

\* "if not self.booted: if self.cycles == 1: pc = 0x80000400; booted = True"
BootTransition(c) ==
    IF ~c.booted /\ c.cycles = 1
    THEN [c EXCEPT !.registers.pc = BOOT_VECTOR, !.booted = TRUE]
    ELSE c

\* (faulty variant) step that fetches and decodes whatever the boot state
FetchInstr_AlwaysDecode(c, word) == Decode(word)

\* The instruction step builds: Instruction(opcode=0x00) while not booted,
\* else the decode of the word mem_read returned
FetchInstr(c, word) ==
    IF ~c.booted THEN Instruction(0, 0, 0, 0, 0) ELSE Decode(word)

\* The addresses step calls mem_read with
Fetched(c) == IF ~c.booted THEN <<>> ELSE <<FetchAddr(c)>>

\* (faulty variant) the cadence test made on the count before the increment
Logged_OffByOne(c, booting, pc_after, logger) ==
    (IF logger /\ booting THEN <<[line |-> "booted"]>> ELSE <<>>)
    \o (IF logger /\ (c.cycles - 1) % TraceEvery = 0
        THEN <<[line |-> "cycle", cycles |-> c.cycles, pc |-> pc_after]>>
        ELSE <<>>)

\* The lines step gives to the logger
Logged(c, booting, pc_after, logger) ==
    (IF logger /\ booting THEN <<[line |-> "booted"]>> ELSE <<>>)
    \o (IF logger /\ c.cycles % TraceEvery = 0
        THEN <<[line |-> "cycle", cycles |-> c.cycles, pc |-> pc_after]>>
        ELSE <<>>)

\* (faulty variant) a step whose advance is stalled does not count an
\* executed instruction
CoreStep_StallNotCounted(c, word, logger) ==
    LET c1 == [c EXCEPT !.cycles = @ + 1,
                        !.instructions_executed = IF c.pipeline.stall THEN @ ELSE @ + 1]
        c2 == BootTransition(c1)
        instr == FetchInstr(c1, word)
        a == PipelineAdvance(c2.pipeline, instr, c2.registers)
        c3 == [c2 EXCEPT !.pipeline = a.pipeline, !.registers = a.registers]
    IN  [ cpu |-> c3,
          ret |-> OrPc(a.ret, c3.registers.pc),
          fetched |-> Fetched(c1),
          instr |-> instr,
          logged |-> Logged(c1, c2.booted /\ ~c1.booted, c3.registers.pc, logger) ]

\* (faulty variant) a step that marks an exception pending when the
\* instruction it decoded is not the implemented opcode
CoreStep_FlagsUnknownOpcode(c, word, logger) ==
    LET c1 == [c EXCEPT !.cycles = @ + 1, !.instructions_executed = @ + 1]
        c2 == BootTransition(c1)
        instr == FetchInstr(c1, word)
        a == PipelineAdvance(c2.pipeline, instr, c2.registers)
        c3 == [c2 EXCEPT !.pipeline = a.pipeline, !.registers = a.registers,
                         !.exception_pending = @ \/ (c1.booted /\ instr.opcode # OP_ADDIU)]
    IN  [ cpu |-> c3,
          ret |-> OrPc(a.ret, c3.registers.pc),
          fetched |-> Fetched(c1),
          instr |-> instr,
          logged |-> Logged(c1, c2.booted /\ ~c1.booted, c3.registers.pc, logger) ]

\* (faulty variant) the boot transition sits under "if logger:"
CoreStep_BootNeedsLogger(c, word, logger) ==
    LET c1 == [c EXCEPT !.cycles = @ + 1, !.instructions_executed = @ + 1]
        c2 == IF logger THEN BootTransition(c1) ELSE c1
        instr == FetchInstr(c1, word)
        a == PipelineAdvance(c2.pipeline, instr, c2.registers)
        c3 == [c2 EXCEPT !.pipeline = a.pipeline, !.registers = a.registers]
    IN  [ cpu |-> c3,
          ret |-> OrPc(a.ret, c3.registers.pc),
          fetched |-> Fetched(c1),
          instr |-> instr,
          logged |-> Logged(c1, c2.booted /\ ~c1.booted, c3.registers.pc, logger) ]

\* R4300iCore.step(mem_read, mem_write, logger).  word is what mem_read
\* answers at FetchAddr(c) (mem_read is called only on the booted path, and
\* mem_write never); logger is TRUE when a logger is passed, FALSE for None.
\* The result is [cpu, ret, fetched, instr, logged]: fetched is the sequence
\* of addresses mem_read was called with, instr the instruction passed to
\* advance, logged the lines given to the logger.
CoreStep(c, word, logger) ==
    LET c1 == [c EXCEPT !.cycles = @ + 1, !.instructions_executed = @ + 1]
        c2 == BootTransition(c1)
        instr == FetchInstr(c1, word)
        a == PipelineAdvance(c2.pipeline, instr, c2.registers)
        c3 == [c2 EXCEPT !.pipeline = a.pipeline, !.registers = a.registers]
    IN  [ cpu |-> c3,
          ret |-> OrPc(a.ret, c3.registers.pc),
          fetched |-> Fetched(c1),
          instr |-> instr,
          logged |-> Logged(c1, c2.booted /\ ~c1.booted, c3.registers.pc, logger) ]

\* (faulty variant) the first booted step stores its PC at the address the
\* PC holds
StepWrites_StoresPc(c, instr) ==
    IF c.booted /\ c.cycles = 1
    THEN <<[addr |-> c.registers.pc, value |-> c.registers.pc]>>
    ELSE <<>>

\* The calls of mem_write that step, and the advance it calls, make on core
\* c with instruction instr: the body of neither uses mem_write
StepWrites(c, instr) == <<>>

----------------------------------------------------------------------------
(* N64Bus.  self.devices maps address -> (read_fn, write_fn).  The dict is  *)
(* kept as the ordered list of the register_device calls that filled it:    *)
(* a call writes the keys (base + 4k) & 0xFFFFFFFF for 0 <= 4k < size, and  *)
(* a later call overwrites the keys it shares with an earlier one.          *)

\* (a - b) & 0xFFFFFFFF
Diff32(a, b) ==
    LET l == a.l - b.l
    IN  W32((a.h - b.h + (l \div Half)) % Half, l % Half)

N64Bus == [devices |-> <<>>]

\* (faulty variant) a registration that does not replace the keys already present
RegisterDevice_KeepsOld(b, base, size, handler) ==
    [b EXCEPT !.devices = <<[base |-> base, size |-> size, handler |-> handler]>> \o @]

\* "for addr in range(base, base + size, 4): self.devices[addr & 0xFFFFFFFF] = ..."
RegisterDevice(b, base, size, handler) ==
    [b EXCEPT !.devices = Append(@, [base |-> base, size |-> size, handler |-> handler])]

\* The keys the loop of registration reg writes, one by one (for small sizes)
KeysOf(reg) ==
    { Add32(reg.base, 4 * k) : k \in 0 .. (((reg.size + 3) \div 4) - 1) }

\* (faulty variant) every address of the range is a key, not every fourth
WritesKey_NoStep(reg, a) ==
    LET d == Diff32(a, reg.base)
    IN  /\ d.h < 32768
        /\ d.h * Half + d.l < reg.size

\* Whether the loop of registration reg wrote key a: a = (base + 4k) & 0xFFFFFFFF
\* for some k >= 0 with 4k < size
WritesKey(reg, a) ==
    LET d == Diff32(a, reg.base)
    IN  /\ d.h < 32768
        /\ d.h * Half + d.l < reg.size
        /\ d.l % 4 = 0

\* (faulty variant) a lookup that answers with the first registration of the key
DevicesGet_First(b, addr) ==
    LET a == Mask32(addr)
        hits == {i \in DOMAIN b.devices : WritesKey(b.devices[i], a)}
    IN  IF hits = {}
        THEN None
        ELSE b.devices[CHOOSE i \in hits : \A j \in hits : i <= j]

\* self.devices.get(addr & 0xFFFFFFFF): the last registration that wrote the key
DevicesGet(b, addr) ==
    LET a == Mask32(addr)
        hits == {i \in DOMAIN b.devices : WritesKey(b.devices[i], a)}
    IN  IF hits = {}
        THEN None
        ELSE b.devices[CHOOSE i \in hits : \A j \in hits : j <= i]

----------------------------------------------------------------------------
(* RDRAMMemory.  self.ram is a bytearray of self.size zero bytes at         *)
(* construction; it is kept as its length (len) and the map of its non-zero *)
(* bytes (ram), offset -> byte.                                             *)

MiB == 1024 * 1024

RAM_BASE == W32(32768, 0)           \* 0x80000000

\* A bytes object: its length and the map of its non-zero bytes, index -> byte
Bytes(bs) ==
    [ len |-> Len(bs),
      nz  |-> [i \in {j \in 0 .. (Len(bs) - 1) : bs[j + 1] # 0} |-> bs[i + 1]] ]

\* data[i]
DataByte(data, i) == IF i \in DOMAIN data.nz THEN data.nz[i] ELSE 0

RDRAMMemory(size_mb) ==
    [ size |-> size_mb * MiB,
      len  |-> size_mb * MiB,
      ram  |-> <<>>,
      rom  |-> Bytes(<<>>) ]

RamByte(m, i) == IF i \in DOMAIN m.ram THEN m.ram[i] ELSE 0

\* ram with byte b stored at offset i
RamPut(ram, i, b) ==
    [j \in (IF b = 0 THEN DOMAIN ram \ {i} ELSE DOMAIN ram \cup {i}) |->
        IF j = i THEN b ELSE ram[j]]

\* (faulty variant) the mask without the "% self.size"
MemOffset_NoWrap(m, addr) == (addr.h % 8192) * Half + addr.l

\* (addr & 0x1FFFFFFF) % self.size
MemOffset(m, addr) == ((addr.h % 8192) * Half + addr.l) % m.size

\* int.from_bytes(bs, 'big') for at most 4 bytes
FromBytes(bs) ==
    LET n == Len(bs)
        p == [k \in 1 .. 4 |-> IF k <= 4 - n THEN 0 ELSE bs[k - (4 - n)]]
    IN  W32(p[1] * 256 + p[2], p[3] * 256 + p[4])

\* value.to_bytes(4, 'big')
ToBytes(w) == <<w.h \div 256, w.h % 256, w.l \div 256, w.l % 256>>

\* The slice self.ram[offset:offset+4]: it ends where ram ends
ReadSlice(m, addr) ==
    LET offset == MemOffset(m, addr)
        n == IF offset + 4 <= m.len THEN 4
             ELSE IF offset < m.len THEN m.len - offset ELSE 0
    IN  [k \in 1 .. n |-> RamByte(m, offset + k - 1)]

\* RDRAMMemory._read
MemRead(m, addr) == FromBytes(ReadSlice(m, addr))

\* RDRAMMemory._write: the slice assignment replaces ram[offset:offset+4] by
\* four bytes, so a slice shorter than four bytes makes ram longer
MemWrite(m, addr, value) ==
    LET offset == MemOffset(m, addr)
        bs == ToBytes(value)
        r1 == RamPut(m.ram, offset, bs[1])
        r2 == RamPut(r1, offset + 1, bs[2])
        r3 == RamPut(r2, offset + 2, bs[3])
        r4 == RamPut(r3, offset + 3, bs[4])
    IN  [m EXCEPT !.ram = r4,
                  !.len = IF offset + 4 > @ THEN offset + 4 ELSE @]

\* (faulty variant) the byte goes to offset i, without the "% self.size"
StoreByte_NoWrap(ram, data, i, size) == RamPut(ram, i, DataByte(data, i))

\* "self.ram[i % self.size] = byte" for byte i of data
StoreByte(ram, data, i, size) == RamPut(ram, i % size, DataByte(data, i))

RECURSIVE LoadBytes(_, _, _, _, _)
\* "for i, byte in enumerate(data): self.ram[i % self.size] = byte" for the
\* indices lo <= i < hi in increasing order, as two halves; g is the ram the
\* first half leaves (bound as an element of a one-element set, so it is
\* computed once)
LoadBytes(ram, data, lo, hi, size) ==
    IF hi <= lo THEN ram
    ELSE IF hi = lo + 1 THEN StoreByte(ram, data, lo, size)
    ELSE CHOOSE r \in { LoadBytes(g, data, lo + ((hi - lo) \div 2), hi, size) :
                        g \in {LoadBytes(ram, data, lo, lo + ((hi - lo) \div 2), size)} } : TRUE

\* (faulty variant) load_rom that zeroes the store before it copies
LoadRom_ClearsFirst(m, data) ==
    [m EXCEPT !.rom = data, !.ram = LoadBytes(<<>>, data, 0, data.len, m.size)]

\* (faulty variant) load_rom that keeps the image and does not copy it
LoadRom_RomOnly(m, data) == [m EXCEPT !.rom = data]

\* RDRAMMemory.load_rom
LoadRom(m, data) ==
    [m EXCEPT !.rom = data, !.ram = LoadBytes(@, data, 0, data.len, m.size)]

----------------------------------------------------------------------------
(* Bus dispatch.  A handler is the memory's pair (_read, _write), named     *)
(* "rdram", or the pair of a stub device, named "stub": its read_fn answers *)
(* with a word made from the address, its write_fn only records the call.   *)

\* The stub device's read_fn: 0xD0000000 | (addr & 0xFFFF)
StubRead(addr) == W32(53248, addr.l)

\* N64Bus.read32: [value, invoked], invoked being the handler calls made
BusRead32(b, m, addr) ==
    LET reg == DevicesGet(b, addr)
    IN  IF reg = None
        THEN [value |-> Zero32, invoked |-> <<>>]
        ELSE [value |-> IF reg.handler = "rdram"
                        THEN MemRead(m, addr)
                        ELSE StubRead(addr),
              invoked |-> <<[fn |-> "read", handler |-> reg.handler, addr |-> addr]>>]

\* N64Bus.write32: [memory, invoked]
BusWrite32(b, m, addr, value) ==
    LET reg == DevicesGet(b, addr)
    IN  IF reg = None
        THEN [memory |-> m, invoked |-> <<>>]
        ELSE [memory |-> IF reg.handler = "rdram" THEN MemWrite(m, addr, value) ELSE m,
              invoked |-> <<[fn |-> "write", handler |-> reg.handler,
                             addr |-> addr, value |-> value]>>]

RECURSIVE BusWrites(_, _, _)
\* The memory after the bus.write32 calls ws, in order
BusWrites(b, m, ws) ==
    IF ws = <<>> THEN m
    ELSE BusWrites(b, BusWrite32(b, m, Head(ws).addr, Head(ws).value).memory, Tail(ws))

----------------------------------------------------------------------------
(* N64System *)

FrameCycles == 1000

SIZE_MB == 4

\* N64System.__init__: the memory registers itself on its bus at 0x80000000
SystemMemory == RDRAMMemory(SIZE_MB)

SystemBus == RegisterDevice(N64Bus, RAM_BASE, SystemMemory.size, "rdram")

\* One cpu.step(self.bus.read32, self.bus.write32, logger) of step_frame,
\* on the frame's running record [cpu, logged, reads, memory]: the lines
\* logged, the number of bus reads so far and the memory as the bus writes
\* of the steps so far left it (m is the memory the frame started with)
FrameStep(f, b, m, logger) ==
    LET word == BusRead32(b, f.memory, FetchAddr(f.cpu)).value
        s == CoreStep(f.cpu, word, logger)
    IN  [cpu |-> s.cpu, logged |-> f.logged \o s.logged, reads |-> f.reads + Len(s.fetched),
         memory |-> BusWrites(b, f.memory, StepWrites(f.cpu, s.instr))]

RECURSIVE Steps(_, _, _, _, _)
\* n consecutive steps, as two halves; g is the record the first half ends
\* with (bound as an element of a one-element set, so it is computed once)
Steps(n, f, b, m, logger) ==
    IF n = 0 THEN f
    ELSE IF n = 1 THEN FrameStep(f, b, m, logger)
    ELSE CHOOSE r \in { Steps(n - (n \div 2), g, b, m, logger) :
                        g \in {Steps(n \div 2, f, b, m, logger)} } : TRUE

\* (faulty variant) a frame that runs one step fewer
StepFrame_OneShort(c, b, m, logger) ==
    Steps(FrameCycles - 1, [cpu |-> c, logged |-> <<>>, reads |-> 0, memory |-> m], b, m, logger)

\* N64System.step_frame: "for _ in range(1000): self.cpu.step(...)"
StepFrame(c, b, m, logger) ==
    Steps(FrameCycles, [cpu |-> c, logged |-> <<>>, reads |-> 0, memory |-> m], b, m, logger)

----------------------------------------------------------------------------
(* N64EmuApp: the state the window keeps around its N64System.  A button is *)
(* "normal" or "disabled"; cycles_label is the label's prefix and number;   *)
(* pending is the number of tick callbacks root.after holds for the window; *)
(* modal is TRUE while load_rom stands in messagebox.showinfo, whose event  *)
(* loop runs the timer callbacks and keeps the window's commands away.      *)

\* The test image main loads when no --rom is given:
\* b'\x37\x82\x00\x08' + b'\x00' * 100
TestRom == [len |-> 104, nz |-> (0 :> 55) @@ (1 :> 130) @@ (3 :> 8)]

\* N64EmuApp.__init__ up to its last statement, the call of reset_system()
AppFields ==
    [ running |-> FALSE,
      rom_path |-> None,
      status_text |-> "Ready",
      play_btn |-> "normal",
      pause_btn |-> "disabled",
      cycles_label |-> [text |-> "Cycles", n |-> 0],
      pending |-> 0,
      modal |-> FALSE ]

\* N64EmuApp.pause
Pause(a) ==
    [a EXCEPT !.running = FALSE, !.play_btn = "normal", !.pause_btn = "disabled"]

\* N64EmuApp.stop on s = [app, cpu, memory]: pause(), system.reset()
Stop(s) ==
    [s EXCEPT !.app = [Pause(@) EXCEPT !.status_text = "Stopped",
                                       !.cycles_label = [text |-> "Cycles", n |-> 0]],
              !.cpu = CoreReset(@)]

\* N64EmuApp.reset_system: stop(), system.reset()
ResetSystem(s) ==
    LET t == Stop(s)
    IN  [t EXCEPT !.app.status_text = "Reset", !.cpu = CoreReset(@)]

\* The N64EmuApp after __init__
N64EmuApp ==
    ResetSystem([app |-> AppFields, cpu |-> R4300iCore, memory |-> SystemMemory]).app

\* N64EmuApp.tick on s = [app, cpu, memory] with the system's bus b: a frame
\* without a logger when running, and the cycles label; on both paths
\* "self.root.after(16, self.tick)" adds a pending callback
Tick(s, b) ==
    IF ~s.app.running THEN [s EXCEPT !.app.pending = @ + 1]
    ELSE CHOOSE t \in
            { [s EXCEPT !.cpu = f.cpu,
                        !.memory = f.memory,
                        !.app.cycles_label = [text |-> "Emulator Cycles", n |-> f.cpu.cycles],
                        !.app.pending = @ + 1] :
              f \in {StepFrame(s.cpu, b, s.memory, FALSE)} } : TRUE

\* N64EmuApp.toggle_play
TogglePlay(s, b) ==
    IF ~s.app.running
    THEN Tick([s EXCEPT !.app.running = TRUE,
                        !.app.play_btn = "disabled",
                        !.app.pause_btn = "normal"], b)
    ELSE [s EXCEPT !.app = Pause(@)]

\* (faulty variant) load_rom that resets the system before it reads the file
AppLoadRom_ResetsFirst(s, path, r) ==
    IF ~r.ok
    THEN [state |-> ResetSystem(s), dialog |-> [kind |-> "error", title |-> "Load Error"]]
    ELSE [state |-> [ResetSystem(s) EXCEPT !.memory = LoadRom(@, r.data),
                                           !.app.rom_path = path,
                                           !.app.status_text = "ROM",
                                           !.app.modal = TRUE],
          dialog |-> [kind |-> "info", title |-> "ROM Loaded"]]

\* N64EmuApp.load_rom(path) up to the message box it opens.  r is the
\* outcome of Path(path).read_bytes(): [ok |-> FALSE] when it raises, else
\* [ok |-> TRUE, data |-> the bytes].  When the read raises, showerror is the
\* last statement.  Otherwise the image is loaded, status_text is
\* "ROM: <name>" and the call stands in showinfo, reset_system() still to
\* come.  The result is the state and the message box shown.
AppLoadRom(s, path, r) ==
    IF ~r.ok
    THEN [state |-> s, dialog |-> [kind |-> "error", title |-> "Load Error"]]
    ELSE [state |-> [s EXCEPT !.memory = LoadRom(@, r.data),
                              !.app.rom_path = path,
                              !.app.status_text = "ROM",
                              !.app.modal = TRUE],
          dialog |-> [kind |-> "info", title |-> "ROM Loaded"]]

\* N64EmuApp.load_rom once showinfo returns: reset_system()
AppLoadRomReturn(s) ==
    ResetSystem([s EXCEPT !.app.modal = FALSE])

\* src/n64emuhdrv1.1a.py, N64EmuApp.__init__ and start(): system.reset(),
\* running = True, tick() (a frame without a logger)
V11aApp == [running |-> TRUE]

V11aStart ==
    CHOOSE t \in
        { [app |-> V11aApp, cpu |-> f.cpu, memory |-> f.memory] :
          f \in {StepFrame(CoreReset(R4300iCore), SystemBus, SystemMemory, FALSE)} } : TRUE

\* src/n64emuhdrv1.1a.py, main with --rom: read_bytes and memory.load_rom
\* inside try, showerror in the except branch
V11aMainLoad(s, r) ==
    IF ~r.ok
    THEN [state |-> s, dialog |-> [kind |-> "error", title |-> "Load Error"]]
    ELSE [state |-> [s EXCEPT !.memory = LoadRom(@, r.data)], dialog |-> None]

----------------------------------------------------------------------------
(* src/N64EMU.py: RegisterSet, R4300iCore and N64System of the variant       *)
(* without a pipeline.  Its step neither reads nor writes the memory it is   *)
(* handed, and the PC is not masked: it is kept as halves whose high half is *)
(* not reduced modulo 2^16.                                                  *)

EMU_PC_DEFAULT == W32(41984, 64)     \* 0xA4000040

CyclesPerFrame == 1562

AudioFrame == 544

GprEvery == 100

\* RegisterSet.create()
EmuRegisterSet ==
    [ gpr |-> [r \in Regs |-> Zero32],
      fpr |-> [r \in Regs |-> 0],
      pc  |-> EMU_PC_DEFAULT,
      hi  |-> 0,
      lo  |-> 0 ]

\* R4300iCore.__init__
EmuCore ==
    [ registers |-> EmuRegisterSet,
      cycles |-> 0,
      instructions_executed |-> 0,
      exception_pending |-> FALSE ]

\* R4300iCore.reset
EmuCoreReset(c) ==
    [c EXCEPT !.registers = EmuRegisterSet,
              !.cycles = 0,
              !.instructions_executed = 0]

\* "self.registers.pc += 4": no mask
EmuPcNext(pc) == W32(pc.h + ((pc.l + 4) \div Half), (pc.l + 4) % Half)

\* (faulty variant) the register activity lands in gpr[1]
EmuCoreStep_BumpsGpr1(c, logger) ==
    LET c1 == [c EXCEPT !.cycles = @ + 1,
                        !.instructions_executed = @ + 1,
                        !.registers.pc = EmuPcNext(@)]
        c2 == IF c1.cycles % GprEvery = 0
              THEN [c1 EXCEPT !.registers.gpr[1] = Add32(@, 1)]
              ELSE c1
    IN  [ cpu |-> c2,
          ret |-> c2.registers.pc,
          logged |-> IF logger /\ c2.cycles % TraceEvery = 0
                     THEN <<[line |-> "cycle", cycles |-> c2.cycles,
                             pc |-> c2.registers.pc,
                             instructions |-> c2.instructions_executed]>>
                     ELSE <<>> ]

\* R4300iCore.step(mem, logger): [cpu, ret, logged]
EmuCoreStep(c, logger) ==
    LET c1 == [c EXCEPT !.cycles = @ + 1,
                        !.instructions_executed = @ + 1,
                        !.registers.pc = EmuPcNext(@)]
        c2 == IF c1.cycles % GprEvery = 0
              THEN [c1 EXCEPT !.registers.gpr[2] = Add32(@, 1)]
              ELSE c1
    IN  [ cpu |-> c2,
          ret |-> c2.registers.pc,
          logged |-> IF logger /\ c2.cycles % TraceEvery = 0
                     THEN <<[line |-> "cycle", cycles |-> c2.cycles,
                             pc |-> c2.registers.pc,
                             instructions |-> c2.instructions_executed]>>
                     ELSE <<>> ]

\* N64System.__init__: the core, the counters of RDP, RSP, AudioInterface
\* and VideoInterface, and the image the memory retains (the ram, the
\* framebuffer, the PIF and the plugin list are changed by neither reset
\* nor step_frame)
N64EmuSystem ==
    [ cpu |-> EmuCore,
      rdp |-> [commands_processed |-> 0],
      rsp |-> [tasks_processed |-> 0, audio_samples_generated |-> 0],
      ai  |-> [samples_played |-> 0],
      vi  |-> [current_line |-> 0, vsync_count |-> 0],
      memory |-> [rom |-> Bytes(<<>>)] ]

\* N64System.reset
EmuSystemReset(sys) ==
    [ cpu |-> EmuCoreReset(sys.cpu),
      rdp |-> [commands_processed |-> 0],
      rsp |-> [tasks_processed |-> 0, audio_samples_generated |-> 0],
      ai  |-> [samples_played |-> 0],
      vi  |-> [current_line |-> 0, vsync_count |-> 0],
      memory |-> sys.memory ]

\* One cpu.step(self.memory, logger) of step_frame, on the running record
\* [cpu, logged]
EmuFrameStep(f, logger) ==
    LET s == EmuCoreStep(f.cpu, logger)
    IN  [cpu |-> s.cpu, logged |-> f.logged \o s.logged]

RECURSIVE EmuSteps(_, _, _)
\* n consecutive steps, as two halves
EmuSteps(n, f, logger) ==
    IF n = 0 THEN f
    ELSE IF n = 1 THEN EmuFrameStep(f, logger)
    ELSE CHOOSE r \in { EmuSteps(n - (n \div 2), g, logger) :
                        g \in {EmuSteps(n \div 2, f, logger)} } : TRUE

\* N64System.step_frame: the steps, then the display list, the graphics and
\* audio tasks, the samples and the vsync: [sys, logged]
EmuStepFrame(sys, logger) ==
    CHOOSE r \in
      { [ sys |-> [ cpu |-> f.cpu,
                    rdp |-> [commands_processed |-> sys.rdp.commands_processed + 1],
                    rsp |-> [tasks_processed |-> sys.rsp.tasks_processed + 2,
                             audio_samples_generated |->
                                 sys.rsp.audio_samples_generated + AudioFrame],
                    ai  |-> [samples_played |-> sys.ai.samples_played + AudioFrame],
                    vi  |-> [current_line |-> 0,
                             vsync_count |-> sys.vi.vsync_count + 1],
                    memory |-> sys.memory ],
          logged |-> f.logged ] :
        f \in {EmuSteps(CyclesPerFrame, [cpu |-> sys.cpu, logged |-> <<>>], logger)} } : TRUE

----------------------------------------------------------------------------
(* src/N64EMU.py: N64EmuApp, the timer-driven window.  jobs is the list of  *)
(* tick callbacks root.after holds, oldest first, each marked TRUE when it  *)
(* is the one self._tick_job names; tick_job is None or Job (an id, which   *)
(* names no pending callback once that callback has fired).                 *)

Job == [job |-> TRUE]

\* N64EmuApp.__init__
EmuAppFields ==
    [running |-> FALSE, paused |-> FALSE, fps |-> 0, frame_count |-> 0,
     tick_job |-> None, jobs |-> <<>>]

\* N64EmuApp._schedule_tick: self._tick_job = self.root.after(16, self._tick)
ScheduleTick(a) ==
    [a EXCEPT !.jobs = [k \in DOMAIN @ |-> FALSE] \o <<TRUE>>, !.tick_job = Job]

\* self.root.after_cancel(self._tick_job): jobs without the callback named
AfterCancel(jobs) ==
    SelectSeq(jobs, LAMBDA named : ~named)

\* N64EmuApp.start on s = [app, emu]
EmuStart(s) ==
    IF s.app.running \/ s.emu.memory.rom.len = 0
    THEN s
    ELSE [app |-> ScheduleTick([s.app EXCEPT !.running = TRUE, !.paused = FALSE]),
          emu |-> EmuSystemReset(s.emu)]

\* N64EmuApp.stop
EmuStop(s) ==
    IF ~s.app.running
    THEN s
    ELSE [s EXCEPT !.app =
            IF @.tick_job # None
            THEN [@ EXCEPT !.running = FALSE, !.paused = FALSE,
                           !.jobs = AfterCancel(@), !.tick_job = None]
            ELSE [@ EXCEPT !.running = FALSE, !.paused = FALSE]]

\* N64EmuApp.pause
EmuPause(s) ==
    IF ~s.app.running THEN s ELSE [s EXCEPT !.app.paused = ~@]

\* N64EmuApp._reset_system
EmuResetSystem(s) ==
    IF s.app.running THEN [s EXCEPT !.emu = EmuSystemReset(@)] ELSE s

\* N64EmuApp._update_fps.  elapsed: "now - self.last_fps_time >= 1.0" (the
\* clock is not part of the state, so the test is an input)
EmuUpdateFps(s, elapsed) ==
    IF elapsed
    THEN [s EXCEPT !.app.fps = s.app.frame_count + 1,
                   !.app.frame_count = 0,
                   !.emu.vi.vsync_count = 0]
    ELSE [s EXCEPT !.app.frame_count = @ + 1]

\* N64EmuApp._tick: step_frame, _update_fps, _schedule_tick
EmuTick(s, elapsed) ==
    IF ~s.app.running THEN s
    ELSE IF s.app.paused THEN [s EXCEPT !.app = ScheduleTick(@)]
    ELSE CHOOSE t \in
            { [u EXCEPT !.app = ScheduleTick(@)] :
              u \in {EmuUpdateFps([s EXCEPT !.emu = EmuStepFrame(@, FALSE).sys], elapsed)} } : TRUE

\* N64EmuApp._open_rom once a path is chosen.  r is the outcome of
\* Path(path).read_bytes(), as for AppLoadRom; memory.load_rom retains the
\* image
EmuOpenRom(s, r) ==
    IF ~r.ok
    THEN [state |-> s, dialog |-> [kind |-> "error", title |-> "Load Error"]]
    ELSE [state |-> [s EXCEPT !.emu.memory.rom = r.data],
          dialog |-> [kind |-> "info", title |-> "ROM Loaded"]]

\* src/N64EMU.py, main with --rom: read_bytes and memory.load_rom inside try
\* (no message box when it succeeds), showerror in the except branch
EmuMainLoad(s, r) ==
    IF ~r.ok
    THEN [state |-> s, dialog |-> [kind |-> "error", title |-> "Load Error"]]
    ELSE [state |-> [s EXCEPT !.emu.memory.rom = r.data], dialog |-> None]

----------------------------------------------------------------------------
(* Inputs *)

\* Instructions handed to Pipeline.advance when the pipeline is driven alone
PipeInstrs ==
    { Instruction(OP_ADDIU, 0, 0, 1, 1),      \* addiu: r1 <- r0 + 1
      Instruction(OP_ADDIU, 0, 0, 1, 2),      \* addiu: r1 <- r0 + 2
      Instruction(OP_ADDIU, 1, 0, 1, 3),      \* addiu: r1 <- r1 + 3
      Instruction(OP_ADDIU, 0, 0, 0, 9),      \* addiu with rd = 0
      Instruction(0, 0, 0, 2, 0) }            \* another opcode, rd = 2

\* Instructions handed to Pipeline.advance on the core's pipeline
Instrs ==
    { Instruction(OP_ADDIU, 0, 0, 1, 1),      \* addiu: r1 <- r0 + 1
      Instruction(OP_ADDIU, 0, 0, 0, 9),      \* addiu with rd = 0
      Instruction(0, 0, 0, 2, 0) }            \* another opcode, rd = 2

\* Words a mem_read callable handed to R4300iCore.step answers with
Words ==
    { Zero32,
      W32(8225, 2053),        \* 0x20210805: addiu, rs = 1, rd = 1, immediate 0x0805
      W32(8192, 9) }          \* 0x20000009: addiu, rs = 0, rd = 0, immediate 9

----------------------------------------------------------------------------
(* State after N64System.__init__ *)

NoHist == [k \in 1 .. Depth |-> None]

Init ==
    /\ cpu = R4300iCore
    /\ memory = SystemMemory
    /\ bus = SystemBus
    /\ ret = None
    /\ obs = [call |-> "init"]
    /\ calls = 0
    /\ hist = NoHist
    /\ emu = N64EmuSystem
    /\ app = N64EmuApp
    /\ stalls = 0

----------------------------------------------------------------------------
(* Calls on the pipeline and the core *)

\* pipeline.advance(i, registers, mem_read, mem_write) on the core's pipeline
\* and registers
AdvanceCall(i) ==
    /\ LET a == PipelineAdvance(cpu.pipeline, i, cpu.registers)
       IN  /\ cpu' = [cpu EXCEPT !.pipeline = a.pipeline, !.registers = a.registers]
           /\ ret' = a.ret
    /\ obs' = [ call |-> "advance", instr |-> i,
                stalled |-> cpu.pipeline.stall,
                retired |-> Stage(cpu.pipeline, Depth - 1),
                due |-> hist[Depth] ]
    /\ calls' = calls + 1
    /\ UNCHANGED <<bus, memory, emu, app, stalls>>

\* The same call, remembering the instructions of the non-stalled calls:
\* hist[k] is the instruction supplied k non-stalled calls ago
PipeAdvance(i) ==
    /\ calls < MaxPipeCalls
    /\ AdvanceCall(i)
    /\ hist' = IF cpu.pipeline.stall
               THEN hist
               ELSE [k \in 1 .. Depth |-> IF k = 1 THEN i ELSE hist[k - 1]]

Advance(i) ==
    /\ calls < MaxCalls
    /\ AdvanceCall(i)
    /\ UNCHANGED hist

\* pipeline.stall = True, set by the pipeline's user
SetStall ==
    /\ ~cpu.pipeline.stall
    /\ cpu' = [cpu EXCEPT !.pipeline.stall = TRUE]
    /\ obs' = [call |-> "set_stall"]
    /\ UNCHANGED <<bus, memory, ret, calls, hist, emu, app, stalls>>

\* cpu.step(mem_read, mem_write, logger) with a mem_read that answers word
Step(word, logger) ==
    /\ calls < MaxCalls
    /\ LET s == CoreStep(cpu, word, logger)
       IN  /\ cpu' = s.cpu
           /\ ret' = s.ret
           /\ obs' = [ call |-> "step", word |-> word,
                       wasBooted |-> cpu.booted,
                       stalled |-> cpu.pipeline.stall,
                       retired |-> Stage(cpu.pipeline, Depth - 1),
                       fetched |-> s.fetched, instr |-> s.instr,
                       logged |-> s.logged ]
    /\ calls' = calls + 1
    /\ UNCHANGED <<bus, memory, hist, emu, app, stalls>>

\* system.reset(): cpu.reset()
Reset ==
    /\ cpu' = CoreReset(cpu)
    /\ ret' = None
    /\ obs' = [ call |-> "reset", wasBooted |-> cpu.booted,
                cyclesBefore |-> cpu.cycles,
                regsDirty |-> cpu.registers # RegisterSet,
                pipeDirty |-> cpu.pipeline # Pipeline ]
    /\ calls' = 0
    /\ stalls' = 0
    /\ UNCHANGED <<bus, memory, hist, emu, app>>

\* system.step_frame(logger)
Frame(logger) ==
    /\ calls < MaxCalls
    /\ calls <= MaxFrameStart
    /\ \E f \in {StepFrame(cpu, bus, memory, logger)} :
           /\ cpu' = f.cpu
           /\ memory' = f.memory
           /\ obs' = [ call |-> "step_frame",
                       wasBooted |-> cpu.booted,
                       cyclesBefore |-> cpu.cycles,
                       reads |-> f.reads, logged |-> f.logged ]
    /\ ret' = None
    /\ calls' = calls + 1
    /\ UNCHANGED <<bus, hist, emu, app, stalls>>

\* A Pipeline and a RegisterSet driven by advance calls alone
NextPipe ==
    \/ \E i \in PipeInstrs : PipeAdvance(i)
    \/ SetStall

SpecPipe == Init /\ [][NextPipe]_vars

\* The core driven through step, advance, reset and step_frame
Next ==
    \/ \E w \in Words, logger \in BOOLEAN : Step(w, logger)
    \/ \E i \in Instrs : Advance(i)
    \/ SetStall
    \/ Reset
    \/ \E logger \in BOOLEAN : Frame(logger)

Spec == Init /\ [][Next]_vars

----------------------------------------------------------------------------
(* Calls on a bus: a new N64Bus beside the memory, devices registered on it *)

BusBases ==
    { W32(0, 0), W32(0, 2),
      W32(65535, 65532),                \* 0xFFFFFFFC
      RAM_BASE }

BusSizes == {6, 8}

Handlers == {"rdram", "stub"}

\* Addresses read32 and write32 are called with
Probes ==
    { W32(0, 0), W32(0, 2), W32(0, 4), W32(0, 6),
      W32(65535, 65532),                \* 0xFFFFFFFC
      W32(32768, 4) }                   \* 0x80000004

BusValues == { W32(4660, 22136) }       \* 0x12345678

InitBus ==
    /\ cpu = R4300iCore
    /\ memory = SystemMemory
    /\ bus = N64Bus
    /\ ret = None
    /\ obs = [call |-> "init"]
    /\ calls = 0
    /\ hist = NoHist
    /\ emu = N64EmuSystem
    /\ app = N64EmuApp
    /\ stalls = 0

\* bus.register_device(base, size, read_fn, write_fn)
Register(base, size, handler) ==
    /\ Len(bus.devices) < MaxRegs
    /\ bus' = RegisterDevice(bus, base, size, handler)
    /\ ret' = None
    /\ obs' = [call |-> "register_device", base |-> base, size |-> size,
               handler |-> handler]
    /\ UNCHANGED <<cpu, memory, calls, hist, emu, app, stalls>>

\* bus.read32(addr)
Read32(addr) ==
    /\ LET r == BusRead32(bus, memory, addr)
       IN  /\ ret' = r.value
           /\ obs' = [call |-> "read32", addr |-> addr, invoked |-> r.invoked]
    /\ UNCHANGED <<cpu, bus, memory, calls, hist, emu, app, stalls>>

\* bus.write32(addr, value)
Write32(addr, value) ==
    /\ LET r == BusWrite32(bus, memory, addr, value)
       IN  /\ memory' = r.memory
           /\ obs' = [call |-> "write32", addr |-> addr, value |-> value,
                      invoked |-> r.invoked]
    /\ ret' = None
    /\ UNCHANGED <<cpu, bus, calls, hist, emu, app, stalls>>

NextBus ==
    \/ \E base \in BusBases, size \in BusSizes, h \in Handlers : Register(base, size, h)
    \/ \E a \in Probes : Read32(a)
    \/ \E a \in Probes, v \in BusValues : Write32(a, v)

SpecBus == InitBus /\ [][NextBus]_vars

----------------------------------------------------------------------------
(* Calls on the memory of the system *)

\* Addresses _read and _write are called with (the store has 0x400000 bytes)
MemAddrs ==
    { W32(0, 0),
      W32(32768, 0),                    \* 0x80000000: offset 0
      W32(40960, 0),                    \* 0xA0000000: offset 0
      W32(64, 0),                       \* 0x00400000: offset 0, by "% size"
      W32(32768, 4),                    \* 0x80000004: offset 4
      W32(32831, 65532),                \* 0x803FFFFC: the last aligned offset
      W32(32831, 65534),                \* 0x803FFFFE: two bytes before the end
      W32(0, 2) }                       \* offset 2

MemValues ==
    { W32(4660, 22136),                 \* 0x12345678
      W32(41394, 50132) }               \* 0xA1B2C3D4

\* ROM images shorter than the store
RomData ==
    { Bytes(<<1, 2, 3, 4, 5>>),
      Bytes(<<0, 0, 9>>),
      Bytes(<<170, 187, 204, 221, 238, 255, 17, 34>>) }

\* memory.load_rom(data)
LoadRomCall(data) ==
    /\ calls < MaxMemCalls
    /\ memory' = LoadRom(memory, data)
    /\ ret' = [size |-> data.len]
    /\ obs' = [call |-> "load_rom", data |-> data, lenBefore |-> memory.len]
    /\ calls' = calls + 1
    /\ UNCHANGED <<cpu, bus, hist, emu, app, stalls>>

\* memory._read(addr)
MemReadCall(addr) ==
    /\ ret' = MemRead(memory, addr)
    /\ obs' = [call |-> "mem_read", addr |-> addr, slice |-> ReadSlice(memory, addr)]
    /\ UNCHANGED <<cpu, bus, memory, calls, hist, emu, app, stalls>>

\* memory._write(addr, value)
MemWriteCall(addr, value) ==
    /\ calls < MaxMemCalls
    /\ memory' = MemWrite(memory, addr, value)
    /\ ret' = None
    /\ obs' = [call |-> "mem_write", addr |-> addr, value |-> value,
               lenBefore |-> memory.len]
    /\ calls' = calls + 1
    /\ UNCHANGED <<cpu, bus, hist, emu, app, stalls>>

NextMem ==
    \/ \E d \in RomData : LoadRomCall(d)
    \/ \E a \in MemAddrs : MemReadCall(a)
    \/ \E a \in MemAddrs, v \in MemValues : MemWriteCall(a, v)

SpecMem == Init /\ [][NextMem]_vars

----------------------------------------------------------------------------
(* A memory of one mebibyte, RDRAMMemory(1), loaded with an image longer    *)
(* than its store                                                           *)

\* An image of MiB + 3 bytes: bytes 0, 1, 5 and the last byte of the first
\* MiB are not zero, and of the three bytes past the store the middle one is
\* zero
LongRom ==
    [ len |-> MiB + 3,
      nz  |-> (0 :> 17) @@ (1 :> 18) @@ (5 :> 3) @@ ((MiB - 1) :> 77)
              @@ (MiB :> 34) @@ ((MiB + 2) :> 9) ]

\* Addresses _write is called with before the image is loaded
RomWriteAddrs ==
    { W32(0, 0),
      W32(15, 65534) }                  \* 0x000FFFFE: two bytes before the end

\* Addresses _read is called with after the image is loaded
RomProbes ==
    { W32(0, 0), W32(0, 1), W32(0, 2), W32(0, 3), W32(0, 4), W32(0, 5), W32(0, 8),
      W32(16, 0),                       \* 0x00100000: offset 0, by "% size"
      W32(32768, 0),                    \* 0x80000000
      W32(32768, 4),                    \* 0x80000004
      W32(40960, 0),                    \* 0xA0000000
      W32(32, 0),                       \* 0x00200000: offset 0, by "% size"
      W32(16, 1), W32(16, 2), W32(16, 4),
      W32(15, 65520),                   \* 0x000FFFF0
      W32(15, 65524),                   \* 0x000FFFF4
      W32(15, 65528),                   \* 0x000FFFF8
      W32(15, 65532),                   \* 0x000FFFFC
      W32(15, 65533),                   \* 0x000FFFFD
      W32(15, 65534),                   \* 0x000FFFFE
      W32(15, 65535) }                  \* 0x000FFFFF

InitRom ==
    /\ cpu = R4300iCore
    /\ memory = RDRAMMemory(1)
    /\ bus = RegisterDevice(N64Bus, RAM_BASE, RDRAMMemory(1).size, "rdram")
    /\ ret = None
    /\ obs = [call |-> "init"]
    /\ calls = 0
    /\ hist = NoHist
    /\ emu = N64EmuSystem
    /\ app = N64EmuApp
    /\ stalls = 0

\* The image is loaded into a memory that holds none yet
LongLoad == memory.rom.len = 0 /\ LoadRomCall(LongRom)

RomWrite(a, v) == MemWriteCall(a, v)

RomRead(a) == memory.rom.len > 0 /\ MemReadCall(a)

NextRom ==
    \/ LongLoad
    \/ \E a \in RomWriteAddrs, v \in {W32(4660, 22136)} : RomWrite(a, v)
    \/ \E a \in RomProbes : RomRead(a)

SpecRom == InitRom /\ [][NextRom]_vars

----------------------------------------------------------------------------
(* Calls on the N64System of src/N64EMU.py, and a process that runs one of  *)
(* the two systems                                                          *)

EmuCalls == {"emu_init", "emu_step", "emu_step_frame", "emu_reset"}

\* system.cpu.step(system.memory, logger)
EmuStepCall(logger) ==
    /\ calls < MaxCalls
    /\ LET s == EmuCoreStep(emu.cpu, logger)
       IN  /\ emu' = [emu EXCEPT !.cpu = s.cpu]
           /\ ret' = s.ret
           /\ obs' = [call |-> "emu_step", cyclesBefore |-> emu.cpu.cycles,
                      logged |-> s.logged]
    /\ calls' = calls + 1
    /\ UNCHANGED <<cpu, bus, memory, hist, app, stalls>>

\* system.step_frame(logger)
EmuFrame(logger) ==
    /\ calls < MaxCalls
    /\ \E f \in {EmuStepFrame(emu, logger)} :
           /\ emu' = f.sys
           /\ obs' = [call |-> "emu_step_frame", cyclesBefore |-> emu.cpu.cycles,
                      logged |-> f.logged]
    /\ ret' = None
    /\ calls' = calls + 1
    /\ UNCHANGED <<cpu, bus, memory, hist, app, stalls>>

\* system.reset()
EmuResetCall ==
    /\ emu' = EmuSystemReset(emu)
    /\ ret' = None
    /\ obs' = [call |-> "emu_reset", cyclesBefore |-> emu.cpu.cycles]
    /\ calls' = 0
    /\ UNCHANGED <<cpu, bus, memory, hist, app, stalls>>

NextEmu ==
    \/ \E logger \in BOOLEAN : EmuStepCall(logger)
    \/ \E logger \in BOOLEAN : EmuFrame(logger)
    \/ EmuResetCall

\* The process has constructed the pipelined N64System ("init") or the one
\* of src/N64EMU.py ("emu_init")
InitFrames ==
    /\ cpu = R4300iCore
    /\ memory = SystemMemory
    /\ bus = SystemBus
    /\ ret = None
    /\ obs \in {[call |-> "init"], [call |-> "emu_init"]}
    /\ calls = 0
    /\ hist = NoHist
    /\ emu = N64EmuSystem
    /\ app = N64EmuApp
    /\ stalls = 0

NextFrames ==
    \/ obs.call \notin EmuCalls /\ Next
    \/ obs.call \in EmuCalls /\ NextEmu

SpecFrames == InitFrames /\ [][NextFrames]_vars

----------------------------------------------------------------------------
(* The pipeline and the core on register values near 2^32.  The RegisterSet *)
(* handed to advance is the caller's: its PC and registers are inputs.      *)

WrapPcs ==
    { PC_DEFAULT,
      W32(65535, 65528),                \* 0xFFFFFFF8
      W32(65535, 65532) }               \* 0xFFFFFFFC

WrapGprs ==
    { Zero32,
      W32(65535, 65535),                \* 0xFFFFFFFF
      W32(65535, 2) }                   \* 0xFFFF0002

WrapInstrs ==
    { Instruction(OP_ADDIU, 1, 0, 1, 65535),  \* addiu: r1 <- r1 + 0xFFFF
      Instruction(OP_ADDIU, 1, 0, 2, 1),      \* addiu: r2 <- r1 + 1
      Instruction(0, 0, 0, 2, 0) }            \* another opcode, rd = 2

RECURSIVE CoreRun(_, _)
\* n steps of a core whose mem_read answers 0 and whose stall flag is never set
CoreRun(c, n) ==
    IF n = 0 THEN c ELSE CoreRun(CoreStep(c, Zero32, FALSE).cpu, n - 1)

\* The steps that take the PC from the boot vector to 0xFFFFFFFC: each
\* non-stalled step adds 4 and the first one starts at BOOT_VECTOR
WrapCycles == ((65535 - BOOT_VECTOR.h) * Half + (65532 - BOOT_VECTOR.l)) \div 4

\* The core WrapCycles such steps after construction.  From the fourth
\* step on, a step changes the two counters and the PC only (the stages
\* all refer to one object, which holds the decoded word 0), so the first
\* Depth steps give every other field.
LongRunCore ==
    [CoreRun(R4300iCore, Depth) EXCEPT !.cycles = WrapCycles,
                                       !.instructions_executed = WrapCycles,
                                       !.registers.pc = W32(65535, 65532)]

InitWrap ==
    /\ \/ \E pc \in WrapPcs, g \in WrapGprs :
             cpu = [R4300iCore EXCEPT !.registers.pc = pc, !.registers.gpr[1] = g]
       \/ cpu = LongRunCore
    /\ memory = SystemMemory
    /\ bus = SystemBus
    /\ ret = None
    /\ obs = [call |-> "init"]
    /\ calls = 0
    /\ hist = NoHist
    /\ emu = N64EmuSystem
    /\ app = N64EmuApp
    /\ stalls = 0

NextWrap ==
    \/ \E w \in Words : Step(w, FALSE)
    \/ \E i \in WrapInstrs : Advance(i)
    \/ SetStall
    \/ Reset

SpecWrap == InitWrap /\ [][NextWrap]_vars

----------------------------------------------------------------------------
(* Claims about the pipeline, checked under SpecPipe *)

\* C1: the five stages are a shift register: after any sequence of
\* non-stalled advance calls, stage k holds the instruction supplied k
\* non-stalled calls ago (stage 0 the one just supplied), or is empty.
C1_ShiftRegister ==
    \A k \in 0 .. (Depth - 1) : Stage(cpu.pipeline, k).instr = hist[k + 1]

\* The last Depth non-stalled calls supplied addiu instructions with a
\* destination other than register 0
AddiuRun ==
    \A k \in 1 .. Depth :
        hist[k] # None => (hist[k].opcode = OP_ADDIU /\ hist[k].rd # 0)

\* C2: retirement latency equals the stage count: when addiu instructions
\* with destination r # 0 are fed one per non-stalled call, the instruction
\* a call writes back is the one supplied Depth calls before it (never a
\* younger one, so never the one the call introduced), and an instruction
\* supplied Depth calls before (here with rs = 0, so its expected value is
\* its immediate) has its expected value in r when the call returns.
C2_RetirementLatency ==
    (obs.call = "advance" /\ ~obs.stalled /\ AddiuRun) =>
        /\ (obs.retired.instr # None /\ obs.retired.instr.rd # 0)
              => obs.retired.instr = obs.due
        /\ (obs.due # None /\ obs.due.rs = 0)
              => cpu.registers.gpr[obs.due.rd] = W32(0, obs.due.immediate)

\* C3: an advance call made with the stall flag set writes nothing back,
\* shifts nothing, leaves the PC and does not insert its instruction: it
\* only clears the flag and returns None; a call made with the flag clear
\* runs: it inserts its instruction, moves the PC on by 4 and returns it.
C3_Stall ==
    [][ (obs'.call = "advance") =>
          IF cpu.pipeline.stall
          THEN /\ cpu'.registers = cpu.registers
               /\ cpu'.pipeline.stages = cpu.pipeline.stages
               /\ cpu'.pipeline.objs = cpu.pipeline.objs
               /\ cpu'.pipeline.stall = FALSE
               /\ ret' = None
          ELSE /\ Stage(cpu'.pipeline, 0).instr = obs'.instr
               /\ cpu'.registers.pc # cpu.registers.pc
               /\ ret' = cpu'.registers.pc
               /\ cpu'.pipeline.stall = FALSE ]_vars

\* A stalled call that would have written back and inserted something new
C3_Witness ==
    /\ obs.call = "advance"
    /\ obs.stalled
    /\ obs.retired.instr # None
    /\ obs.retired.instr.rd # 0
    /\ obs.retired.value # cpu.registers.gpr[obs.retired.instr.rd]
    /\ Stage(cpu.pipeline, 0).instr # obs.instr
    /\ ret = None

----------------------------------------------------------------------------
(* Claims about the core, checked under Spec *)

\* C4: register 0 is never written: gpr[0] = 0 in every state reachable by
\* advance, step, step_frame and reset calls.
C4_RegZero == cpu.registers.gpr[0] = Zero32

\* A call that retired an instruction with rd = 0 carrying a non-zero value
C4_Witness ==
    /\ obs.call \in {"advance", "step"}
    /\ ~obs.stalled
    /\ obs.retired.instr # None
    /\ obs.retired.instr.rd = 0
    /\ obs.retired.value # Zero32

\* C5 as stated: after the first step of an unbooted core the PC equals the
\* entry vector 0x80000400 and booted is true.
C5_BootPcIsVector ==
    (obs.call = "step" /\ ~obs.wasBooted) =>
        (cpu.booted /\ cpu.registers.pc = BOOT_VECTOR)

\* C5 as amended: after the first step of an unbooted core booted is true
\* and the PC is 0x80000404, the entry vector moved on by the advance of the
\* same step; it is 0x80000400 only when that advance was stalled.
C5_BootPc ==
    (obs.call = "step" /\ ~obs.wasBooted) =>
        /\ cpu.booted
        /\ cpu.registers.pc = IF obs.stalled THEN W32(32768, 1024) ELSE W32(32768, 1028)

\* The first step of a core that was reset after running
C5_Witness ==
    /\ obs.call = "step"
    /\ ~obs.wasBooted
    /\ ~obs.stalled
    /\ calls = 1
    /\ cpu.booted
    /\ cpu.registers.pc = W32(32768, 1028)

\* C6: a step of an unbooted core reads nothing through mem_read and hands
\* the all-zero instruction to the pipeline; a step of a booted core (every
\* step but the first after construction or reset) reads exactly once and
\* hands over the decode of the word read.  A frame reads once per booted
\* step.
C6_FetchSource ==
    /\ (obs.call = "step") =>
          /\ obs.wasBooted <=> (cpu.cycles >= 2)
          /\ IF obs.wasBooted
             THEN /\ Len(obs.fetched) = 1
                  /\ obs.instr = Decode(obs.word)
             ELSE /\ obs.fetched = <<>>
                  /\ obs.instr = Instruction(0, 0, 0, 0, 0)
    /\ (obs.call = "step_frame") =>
          obs.reads = IF obs.wasBooted THEN FrameCycles ELSE FrameCycles - 1

\* A booted step that fetched an addiu word
C6_Witness ==
    /\ obs.call = "step"
    /\ obs.wasBooted
    /\ Len(obs.fetched) = 1
    /\ obs.instr.opcode = OP_ADDIU
    /\ obs.instr.rd = 1

\* C7: after reset, cycles = 0, instructions_executed = 0, PC = 0xBFC00000
\* and booted = false, whatever ran before.
C7_ResetCounters ==
    (obs.call = "reset") =>
        /\ cpu.cycles = 0
        /\ cpu.instructions_executed = 0
        /\ cpu.registers.pc = W32(49088, 0)
        /\ ~cpu.booted

\* A reset of a core that had booted and run a frame
C7_Witness ==
    /\ obs.call = "reset"
    /\ obs.wasBooted
    /\ obs.cyclesBefore >= FrameCycles

\* C8: after reset the whole core state (registers, PC, HI/LO, control
\* registers, the five stages empty with value 0 and distinct again, stall
\* flag, counters, booted and exception flags) is that of a new core.
C8_ResetIsFresh ==
    (obs.call = "reset") => cpu = R4300iCore

\* A reset of a core whose registers and pipeline had changed
C8_Witness ==
    /\ obs.call = "reset"
    /\ obs.regsDirty
    /\ obs.pipeDirty
    /\ obs.cyclesBefore > 0
    /\ cpu = R4300iCore

----------------------------------------------------------------------------
(* Claims about the bus, checked under SpecBus *)

\* Whether some register_device call wrote the key of addr
Mapped(b, addr) ==
    \E i \in DOMAIN b.devices : Mask32(addr) \in KeysOf(b.devices[i])

\* What the read_fn of a handler pair answers
ReadFn(handler, m, addr) ==
    IF handler = "rdram" THEN MemRead(m, addr) ELSE StubRead(addr)

\* C9: for an address no registration covers, read32 returns 0 and write32
\* changes nothing, and neither calls a handler; so on a new bus for every
\* address.
C9_Unmapped ==
    [][ (obs'.call \in {"read32", "write32"} /\ ~Mapped(bus, obs'.addr)) =>
          /\ obs'.invoked = <<>>
          /\ bus' = bus
          /\ memory' = memory
          /\ (obs'.call = "read32" => ret' = Zero32) ]_vars

\* A write to an address that the memory, registered elsewhere, does not cover
C9_Witness ==
    /\ obs.call = "write32"
    /\ ~Mapped(bus, obs.addr)
    /\ \E i \in DOMAIN bus.devices :
          bus.devices[i].handler = "rdram" /\ bus.devices[i].size > 0
    /\ obs.invoked = <<>>
    /\ memory = SystemMemory

\* base <= a < base + size, for the sizes of BusSizes
InRange(a, base, size) ==
    LET d == Diff32(a, base) IN d.h = 0 /\ d.l < size

\* read32(a) calls the pair's read_fn with a and returns its answer, and
\* write32(a, v) calls its write_fn with a and v
Dispatches(b, m, a, handler) ==
    /\ BusRead32(b, m, a).invoked = <<[fn |-> "read", handler |-> handler, addr |-> a]>>
    /\ BusRead32(b, m, a).value = ReadFn(handler, m, a)
    /\ \A v \in BusValues :
          BusWrite32(b, m, a, v).invoked =
              <<[fn |-> "write", handler |-> handler, addr |-> a, value |-> v]>>

\* C10 as stated: after register_device(base, size, read_fn, write_fn),
\* for every base and size, every 4-byte-aligned address a with
\* base <= a < base + size dispatches to (read_fn, write_fn).
C10_AlignedRangeMapped ==
    (obs.call = "register_device") =>
        \A a \in Probes :
            (a.l % 4 = 0 /\ InRange(a, obs.base, obs.size))
                => Dispatches(bus, memory, a, obs.handler)

\* C10 as amended: the addresses mapped are base + 4k for k >= 0 and
\* base + 4k < base + size; they are the 4-byte-aligned addresses of the
\* range when base is 4-byte-aligned.
C10_RangeMapped ==
    (obs.call = "register_device") =>
        /\ \A k \in 0 .. (((obs.size + 3) \div 4) - 1) :
              Dispatches(bus, memory, Add32(obs.base, 4 * k), obs.handler)
        /\ (obs.base.l % 4 = 0) =>
              \A a \in Probes :
                  (a.l % 4 = 0 /\ InRange(a, obs.base, obs.size))
                      => Dispatches(bus, memory, a, obs.handler)

\* A second registration, unaligned, over part of the first one's range
C10_Witness ==
    /\ obs.call = "register_device"
    /\ Len(bus.devices) = 2
    /\ obs.base = W32(0, 2)
    /\ obs.size = 8
    /\ bus.devices[1].base = W32(0, 0)
    /\ bus.devices[1].size = 8
    /\ bus.devices[1].handler # obs.handler
    /\ Dispatches(bus, memory, W32(0, 6), obs.handler)

\* The registrations whose range [base, base + size) covers address a
Covering(b, a) ==
    {i \in DOMAIN b.devices : InRange(a, b.devices[i].base, b.devices[i].size)}

\* The registrations whose loop wrote the key of address a
Writing(b, a) ==
    {i \in DOMAIN b.devices : Mask32(a) \in KeysOf(b.devices[i])}

\* The greatest element of a non-empty set of indices
Latest(S) == CHOOSE i \in S : \A j \in S : j <= i

\* C11 as stated: after any sequence of register_device calls (reads and
\* writes between them), each mapped
\* address dispatches to the handler pair of the most recent registration
\* whose range covers it.
C11_LastCoveringWins ==
    (obs.call = "register_device") =>
        \A a \in Probes :
            Mapped(bus, a) =>
                /\ Covering(bus, a) # {}
                /\ Dispatches(bus, memory, a, bus.devices[Latest(Covering(bus, a))].handler)

\* C11 as amended: each mapped address dispatches to the handler pair of the
\* most recent registration that wrote its key (an address base + 4k of that
\* registration, modulo 2^32); an address whose key only earlier
\* registrations wrote keeps the earlier pair, also when it lies in the range
\* of a later registration.
C11_LastRegisteredWins ==
    (obs.call = "register_device") =>
        \A a \in Probes :
            LET W == Writing(bus, a)
            IN  (W # {}) => Dispatches(bus, memory, a, bus.devices[Latest(W)].handler)

\* Two registrations with different pairs that share key 0: the second wins
\* there, and the first keeps key 0xFFFFFFFC, which only it wrote
C11_Witness ==
    /\ obs.call = "register_device"
    /\ Len(bus.devices) = 2
    /\ bus.devices[1] = [base |-> W32(65535, 65532), size |-> 8, handler |-> "stub"]
    /\ bus.devices[2] = [base |-> W32(0, 0), size |-> 6, handler |-> "rdram"]
    /\ Dispatches(bus, memory, W32(0, 0), "rdram")
    /\ Dispatches(bus, memory, W32(65535, 65532), "stub")

----------------------------------------------------------------------------
(* Claims about the memory, checked under SpecMem and SpecRom *)

\* Byte i of the store as a caller of _read sees it: byte i mod 4 of the
\* big-endian word read at offset 4 * (i div 4)
ByteViaMemory(m, i) ==
    ToBytes(MemRead(m, W32(0, 4 * (i \div 4))))[(i % 4) + 1]

\* The same byte read through the bus at 0x80000000 + 4 * (i div 4)
ByteViaBus(b, m, i) ==
    ToBytes(BusRead32(b, m, Add32(RAM_BASE, 4 * (i \div 4))).value)[(i % 4) + 1]

\* C12: ROM round trip: after load_rom(data) with data shorter than the
\* store, the first len(data) bytes read back through Bus.read32 at
\* 0x80000000 + 4k, or through the memory's read at offset 4k, taken
\* big-endian, are data, and the bus calls the memory's read for them.
C12_RomRoundTrip ==
    (obs.call = "load_rom" /\ obs.data.len < memory.size) =>
        \A i \in 0 .. (obs.data.len - 1) :
            /\ ByteViaMemory(memory, i) = DataByte(obs.data, i)
            /\ ByteViaBus(bus, memory, i) = DataByte(obs.data, i)
            /\ Len(BusRead32(bus, memory, Add32(RAM_BASE, 4 * (i \div 4))).invoked) = 1

\* The five-byte image loaded over a word written before, read back
C12_Witness ==
    /\ obs.call = "load_rom"
    /\ obs.data = Bytes(<<1, 2, 3, 4, 5>>)
    /\ calls = 2
    /\ BusRead32(bus, memory, W32(32768, 0)).value = W32(258, 772)
    /\ ToBytes(MemRead(memory, W32(0, 4)))[1] = 5
    /\ ToBytes(MemRead(memory, W32(0, 4)))[3] # 0

\* The greatest index i < len with i mod size = j, for j < size and j < len
LastIndex(j, len, size) == j + size * ((len - 1 - j) \div size)

\* The store offsets that hold a non-zero byte, or which a non-zero byte of
\* data is written to, and the first and last eight offsets of the store: at
\* every other offset the store holds 0 and every byte of data written there
\* is 0
OffsetsOfInterest(m, data) ==
    (DOMAIN m.ram) \cup {i % m.size : i \in DOMAIN data.nz}
        \cup (0 .. 7) \cup ((m.size - 8) .. (m.size - 1))

\* C13: ROM wrap: after load_rom(data) with data longer than the store, each
\* store offset j holds data[i] for the greatest i < len(data) with
\* i mod size = j, and load_rom has not changed the length of the store: it
\* is still the size when it was before the call.
C13_RomWrap ==
    (obs.call = "load_rom" /\ obs.data.len > memory.size) =>
        /\ \A j \in OffsetsOfInterest(memory, obs.data) :
              j < memory.size =>
                  RamByte(memory, j) =
                      DataByte(obs.data, LastIndex(j, obs.data.len, memory.size))
        /\ memory.len = obs.lenBefore
        /\ (obs.lenBefore = memory.size) => (memory.len = memory.size)
        /\ memory.rom = obs.data

\* The long image loaded over a word written at offset 0: offsets 0 and 2
\* hold the bytes past the store, offset 1 the zero byte that came after 18
C13_Witness ==
    /\ obs.call = "load_rom"
    /\ obs.data.len = memory.size + 3
    /\ calls = 2
    /\ obs.lenBefore = memory.size
    /\ RamByte(memory, 0) = 34
    /\ RamByte(memory, 1) = 0
    /\ RamByte(memory, 2) = 9
    /\ RamByte(memory, 3) = 0
    /\ RamByte(memory, 5) = 3
    /\ RamByte(memory, memory.size - 1) = 77
    /\ memory.len = memory.size

\* The 4-byte-aligned addresses among those _read and _write are called with
AlignedAddrs == {a \in MemAddrs : a.l % 4 = 0}

\* The offset the claim gives for an address: (addr & 0x1FFFFFFF) mod size
CellOf(m, a) == ((a.h % 8192) * Half + a.l) % m.size

\* The part of C14 that holds of the source: write(addr, v) stores the 4
\* big-endian bytes of v at offset (addr & 0x1FFFFFFF) mod size; for
\* 4-byte-aligned addresses, read(a') after write(a, v) returns v for every
\* a' with the same offset (mirrored addresses are the same cell), and every
\* other aligned cell reads as before.
C14_Addressing ==
    [][ (obs'.call = "mem_write") =>
          LET a == obs'.addr
              v == obs'.value
              off == CellOf(memory, a)
          IN  /\ RamByte(memory', off) = v.h \div 256
              /\ RamByte(memory', off + 1) = v.h % 256
              /\ RamByte(memory', off + 2) = v.l \div 256
              /\ RamByte(memory', off + 3) = v.l % 256
              /\ (a.l % 4 = 0) =>
                    \A b \in AlignedAddrs :
                        IF CellOf(memory, b) = off
                        THEN MemRead(memory', b) = v
                        ELSE MemRead(memory', b) = MemRead(memory, b) ]_vars

\* A write at 0x80000000 seen at 0x00400000 and 0xA0000000, the cell at
\* offset 4 holding the other value
C14_Witness ==
    /\ obs.call = "mem_write"
    /\ obs.addr = W32(32768, 0)
    /\ obs.value = W32(4660, 22136)
    /\ MemRead(memory, W32(64, 0)) = W32(4660, 22136)
    /\ MemRead(memory, W32(40960, 0)) = W32(4660, 22136)
    /\ MemRead(memory, W32(32768, 4)) = W32(41394, 50132)

\* The big-endian value of the 4 bytes of the store at offset off, the
\* offsets taken within the store's size
FourBytesAt(m, off) ==
    W32(RamByte(m, off % m.size) * 256 + RamByte(m, (off + 1) % m.size),
        RamByte(m, (off + 2) % m.size) * 256 + RamByte(m, (off + 3) % m.size))

\* C14: memory addressing: write(addr, v) stores v as 4 big-endian bytes at
\* offset (addr & 0x1FFFFFFF) mod size, and read(addr), for every address,
\* returns the big-endian value of the 4 bytes at that offset; hence for
\* 4-byte-aligned addresses, read(a') after write(a, v) returns v for every
\* a' with the same offset, and every other aligned cell reads as before.
C14_AddressingAsClaimed ==
    /\ [][ (obs'.call = "mem_write") =>
             LET a == obs'.addr
                 v == obs'.value
                 off == CellOf(memory, a)
             IN  /\ RamByte(memory', off) = v.h \div 256
                 /\ RamByte(memory', off + 1) = v.h % 256
                 /\ RamByte(memory', off + 2) = v.l \div 256
                 /\ RamByte(memory', off + 3) = v.l % 256
                 /\ (a.l % 4 = 0) =>
                       \A b \in AlignedAddrs :
                           IF CellOf(memory, b) = off
                           THEN MemRead(memory', b) = v
                           ELSE MemRead(memory', b) = MemRead(memory, b) ]_vars
    /\ [] ( (obs.call = "mem_read") =>
              (ret = FourBytesAt(memory, CellOf(memory, obs.addr))) )

\* The read clause of C14 away from the end of the store: a read whose
\* offset leaves 4 bytes before the end returns their big-endian value,
\* aligned or not
C14_ReadAwayFromEnd ==
    (obs.call = "mem_read" /\ CellOf(memory, obs.addr) + 4 <= memory.size) =>
        (ret = FourBytesAt(memory, CellOf(memory, obs.addr)))

\* An unaligned read at offset 2 has returned the low half of the value
\* written at offset 0 and the high half of the one written at offset 4
C14_WitnessUnaligned ==
    /\ obs.call = "mem_read"
    /\ obs.addr = W32(0, 2)
    /\ ret = W32(22136, 41394)

\* C15: all addressed reads and writes wrap within the store: for every
\* address, aligned or not, a read combines exactly 4 bytes of the store and
\* a write leaves the length of the store equal to the size fixed at
\* construction.
C15_WrapsWithinStore ==
    /\ memory.len = memory.size
    /\ (obs.call = "mem_read") => (Len(obs.slice) = 4)

----------------------------------------------------------------------------
(* Claims about a frame, checked under SpecFrames *)

\* C16: one step_frame() call advances the cycle counter by exactly the
\* per-frame cycle count, 1000 in the pipelined system and 1562 in the system
\* of src/N64EMU.py, from any starting state (new, booted, stalled, after
\* steps, frames and resets).
C16_FrameCycles ==
    /\ (obs.call = "step_frame") => (cpu.cycles = obs.cyclesBefore + 1000)
    /\ (obs.call = "emu_step_frame") => (emu.cpu.cycles = obs.cyclesBefore + 1562)

\* A frame of the system of src/N64EMU.py that started after a frame and a step
C16_Witness ==
    /\ obs.call = "emu_step_frame"
    /\ obs.cyclesBefore = 1563
    /\ emu.cpu.cycles = 3125
    /\ emu.vi.vsync_count = 2

----------------------------------------------------------------------------
(* Claims about register widths, checked under SpecWrap *)

\* A value in [0, 2^32): both halves in [0, 2^16)
In32(w) == w.h \in 0 .. 65535 /\ w.l \in 0 .. 65535

\* (pc + 4) mod 2^32, by cases on the carries
PcPlus4(pc) ==
    IF pc.l + 4 < 65536 THEN W32(pc.h, pc.l + 4)
    ELSE IF pc.h < 65535 THEN W32(pc.h + 1, pc.l + 4 - 65536)
    ELSE W32(0, pc.l + 4 - 65536)

\* C17: 32-bit registers: after every step, advance and reset each
\* general-purpose register and the PC lie in [0, 2^32); the PC increment of
\* a non-stalled advance wraps modulo 2^32 (0xFFFFFFFC + 4 = 0), and so does
\* the value written back.
C17_Registers32 ==
    [][ /\ \A r \in Regs : In32(cpu'.registers.gpr[r])
        /\ In32(cpu'.registers.pc)
        /\ (obs'.call = "advance" /\ ~cpu.pipeline.stall) =>
              /\ cpu'.registers.pc = PcPlus4(cpu.registers.pc)
              /\ (cpu.registers.pc = W32(65535, 65532)) => (cpu'.registers.pc = Zero32) ]_vars

\* The PC has passed 0xFFFFFFFC and register 1, which held 0xFFFFFFFF, holds
\* (0xFFFFFFFF + 0xFFFF) mod 2^32 = 0x0000FFFE
C17_Witness ==
    /\ obs.call = "advance"
    /\ cpu.registers.pc.h = 0
    /\ cpu.registers.gpr[1] = W32(0, 65534)

----------------------------------------------------------------------------
(* Claims about decode and execute, checked under SpecPipe *)

\* C18: decode/execute targets the second-newest stage: after a non-stalled
\* advance the stage the execute step worked on (stage 1) holds the
\* instruction supplied by the previous non-stalled call, not the one the
\* call supplied, and if that instruction is an addiu the stage's value is
\* (gpr[rs] + immediate) mod 2^32 of the register file of that moment.
C18_ExecuteSecondNewest ==
    (obs.call = "advance" /\ ~obs.stalled) =>
        LET p  == hist[2]
            s1 == Stage(cpu.pipeline, 1)
        IN  /\ s1.instr = p
            /\ (p # None /\ p.opcode = OP_ADDIU) =>
                  s1.value = Add32(cpu.registers.gpr[p.rs], p.immediate)

\* C19: an instruction whose opcode is not 0x08 passes through the pipeline
\* as a no-op carrying value 0: when a non-stalled advance retires it (it is
\* in the oldest stage at the call), the value associated with it is 0,
\* whatever the instructions before it.
C19_NoOpCarriesZero ==
    (/\ obs.call = "advance"
     /\ ~obs.stalled
     /\ obs.retired.instr # None
     /\ obs.retired.instr.opcode # OP_ADDIU) =>
        obs.retired.value = Zero32

\* The instruction a non-stalled advance computed a value for is B, supplied
\* by the call itself (k = 1) or by the non-stalled call before it (k = 2),
\* B is an addiu, and the instruction supplied immediately before B is an
\* addiu A whose destination is B's rs
Dependent(h, B, k) ==
    /\ B # None
    /\ h[k] = B
    /\ B.opcode = OP_ADDIU
    /\ B.rs # 0
    /\ h[k + 1] # None
    /\ h[k + 1].opcode = OP_ADDIU
    /\ h[k + 1].rd = B.rs

\* C20: no forwarding: when addiu B is fed on the advance call immediately
\* after addiu A and B's rs is A's destination, the value computed for B is
\* (gpr[rs] + immediate) mod 2^32 for the content gpr[rs] had before A's
\* writeback (A is not written back before the call that computes B's
\* value), not for A's result; at every point of a run.
C20_NoForwarding ==
    [][ (obs'.call = "advance" /\ ~cpu.pipeline.stall) =>
          LET s1 == Stage(cpu'.pipeline, 1)
          IN  \A k \in {1, 2} :
                  Dependent(hist', s1.instr, k) =>
                      s1.value = Add32(cpu.registers.gpr[s1.instr.rs],
                                       s1.instr.immediate) ]_vars

----------------------------------------------------------------------------
(* The N64System driven as a whole: load_rom on its memory, step on its cpu *)
(* with the bus's read32 and write32, step_frame and reset; the stall flag  *)
(* may be set from outside.                                                  *)

\* An image whose words at offsets 0x400, 0x404 and 0x408 are 0x20210805
\* (addiu: r1 <- r1 + 0x0805), 0x20000009 and 0x20210805
CodeRom ==
    [ len |-> 1036,
      nz  |-> (1024 :> 32) @@ (1025 :> 33) @@ (1026 :> 8) @@ (1027 :> 5)
              @@ (1028 :> 32) @@ (1031 :> 9)
              @@ (1032 :> 32) @@ (1033 :> 33) @@ (1034 :> 8) @@ (1035 :> 5) ]

SysRoms == {TestRom, CodeRom}

\* system.memory.load_rom(data)
SysLoad(data) ==
    /\ memory' = LoadRom(memory, data)
    /\ ret' = [size |-> data.len]
    /\ obs' = [call |-> "load_rom", data |-> data, lenBefore |-> memory.len]
    /\ UNCHANGED <<cpu, bus, calls, hist, emu, app, stalls>>

\* system.cpu.step(system.bus.read32, system.bus.write32, logger): word is
\* what read32 answered (None when step did not call it), invoked the
\* handler calls the bus made for the fetch, writes the write32 calls made
SysStep(logger) ==
    /\ calls < MaxCalls
    /\ LET r == BusRead32(bus, memory, FetchAddr(cpu))
           s == CoreStep(cpu, r.value, logger)
           ws == StepWrites(cpu, s.instr)
       IN  /\ cpu' = s.cpu
           /\ ret' = s.ret
           /\ memory' = BusWrites(bus, memory, ws)
           /\ obs' = [ call |-> "step", logger |-> logger,
                       word |-> IF cpu.booted THEN r.value ELSE None,
                       invoked |-> IF cpu.booted THEN r.invoked ELSE <<>>,
                       wasBooted |-> cpu.booted,
                       stalled |-> cpu.pipeline.stall,
                       fetched |-> s.fetched, instr |-> s.instr,
                       writes |-> ws,
                       logged |-> s.logged ]
    /\ calls' = calls + 1
    /\ stalls' = stalls + (IF cpu.pipeline.stall THEN 1 ELSE 0)
    /\ UNCHANGED <<bus, hist, emu, app>>

\* system.step_frame(logger)
SysFrame(logger) ==
    /\ calls < MaxCalls
    /\ calls <= MaxFrameStart
    /\ \E f \in {StepFrame(cpu, bus, memory, logger)} :
           /\ cpu' = f.cpu
           /\ memory' = f.memory
           /\ obs' = [ call |-> "step_frame", logger |-> logger,
                       wasBooted |-> cpu.booted,
                       stalled |-> cpu.pipeline.stall,
                       cyclesBefore |-> cpu.cycles,
                       reads |-> f.reads, logged |-> f.logged ]
    /\ ret' = None
    /\ calls' = calls + 1
    /\ stalls' = stalls + (IF cpu.pipeline.stall THEN 1 ELSE 0)
    /\ UNCHANGED <<bus, hist, emu, app>>

NextSys ==
    \/ \E d \in SysRoms : SysLoad(d)
    \/ \E logger \in BOOLEAN : SysStep(logger)
    \/ \E logger \in BOOLEAN : SysFrame(logger)
    \/ Reset
    \/ SetStall

SpecSys == Init /\ [][NextSys]_vars

----------------------------------------------------------------------------
(* The window of src/emu64hdr.py ("app_init") or of src/n64emuhdrv1.1a.py  *)
(* ("v11a_init") around its system: main's load, then the window's events. *)

Paths == {"a.z64"}

\* Outcomes of Path(path).read_bytes(): it raises, or returns the file
FileReads ==
    {[ok |-> FALSE, data |-> Bytes(<<>>)]}
    \cup {[ok |-> TRUE, data |-> d] : d \in {CodeRom, Bytes(<<1, 2, 3, 4, 5>>)}}

V11aCalls == {"v11a_init", "main_load", "v11a_test_rom", "v11a_tick"}

AppState == [app |-> app, cpu |-> cpu, memory |-> memory]

\* app.load_rom(path), from main (--rom) or from the Open ROM dialog, up to
\* its message box
AppLoadRomCall(path, r) ==
    /\ ~app.modal
    /\ LET o == AppLoadRom(AppState, path, r)
       IN  /\ app' = o.state.app
           /\ cpu' = o.state.cpu
           /\ memory' = o.state.memory
           /\ obs' = [call |-> "app_load_rom", path |-> path, failed |-> ~r.ok,
                      dialog |-> o.dialog]
    /\ ret' = None
    /\ UNCHANGED <<bus, calls, hist, emu, stalls>>

\* The "ROM Loaded" box is closed: load_rom goes on to reset_system()
AppLoadRomReturnCall ==
    /\ app.modal
    /\ LET t == AppLoadRomReturn(AppState)
       IN  /\ app' = t.app
           /\ cpu' = t.cpu
           /\ memory' = t.memory
    /\ ret' = None
    /\ obs' = [call |-> "app_load_rom_return", wasRunning |-> app.running]
    /\ UNCHANGED <<bus, calls, hist, emu, stalls>>

\* main without --rom: app.system.memory.load_rom(test_rom)
MainTestRom ==
    /\ obs.call = "app_init"
    /\ memory' = LoadRom(memory, TestRom)
    /\ ret' = [size |-> TestRom.len]
    /\ obs' = [call |-> "main_test_rom"]
    /\ UNCHANGED <<cpu, bus, calls, hist, emu, app, stalls>>

\* The Run/Play command
AppTogglePlay ==
    /\ obs.call # "app_init"
    /\ ~app.modal
    /\ app.running \/ cpu.cycles < MaxAppFrames * FrameCycles
    /\ app.running \/ app.pending < MaxPending
    /\ \E t \in {TogglePlay(AppState, bus)} :
           /\ app' = t.app
           /\ cpu' = t.cpu
           /\ memory' = t.memory
    /\ ret' = None
    /\ obs' = [call |-> "toggle_play", wasRunning |-> app.running,
               frames |-> IF app.running THEN 0 ELSE 1]
    /\ UNCHANGED <<bus, calls, hist, emu, stalls>>

\* The Pause command
AppPause ==
    /\ obs.call # "app_init"
    /\ ~app.modal
    /\ app' = Pause(app)
    /\ ret' = None
    /\ obs' = [call |-> "pause", wasRunning |-> app.running]
    /\ UNCHANGED <<cpu, bus, memory, calls, hist, emu, stalls>>

\* The Stop command
AppStop ==
    /\ obs.call # "app_init"
    /\ ~app.modal
    /\ LET t == Stop(AppState)
       IN  /\ app' = t.app
           /\ cpu' = t.cpu
    /\ ret' = None
    /\ obs' = [call |-> "stop", wasRunning |-> app.running]
    /\ UNCHANGED <<bus, memory, calls, hist, emu, stalls>>

\* The Reset command
AppReset ==
    /\ obs.call # "app_init"
    /\ ~app.modal
    /\ LET t == ResetSystem(AppState)
       IN  /\ app' = t.app
           /\ cpu' = t.cpu
    /\ ret' = None
    /\ obs' = [call |-> "reset_system", wasRunning |-> app.running]
    /\ UNCHANGED <<bus, memory, calls, hist, emu, stalls>>

\* The timer fires one of the pending tick callbacks
AppTick ==
    /\ obs.call # "app_init"
    /\ app.pending > 0
    /\ cpu.cycles < MaxAppFrames * FrameCycles
    /\ \E t \in {Tick([AppState EXCEPT !.app.pending = @ - 1], bus)} :
           /\ app' = t.app
           /\ cpu' = t.cpu
           /\ memory' = t.memory
    /\ ret' = None
    /\ obs' = [call |-> "tick", wasRunning |-> app.running,
               frames |-> IF app.running THEN 1 ELSE 0]
    /\ UNCHANGED <<bus, calls, hist, emu, stalls>>

\* src/n64emuhdrv1.1a.py: main with --rom
V11aMainLoadCall(path, r) ==
    /\ obs.call = "v11a_init"
    /\ LET o == V11aMainLoad(AppState, r)
       IN  /\ memory' = o.state.memory
           /\ obs' = [call |-> "main_load", path |-> path, failed |-> ~r.ok,
                      dialog |-> o.dialog]
    /\ ret' = None
    /\ UNCHANGED <<cpu, bus, calls, hist, emu, app, stalls>>

\* src/n64emuhdrv1.1a.py: main without --rom
V11aTestRom ==
    /\ obs.call = "v11a_init"
    /\ memory' = LoadRom(memory, TestRom)
    /\ ret' = [size |-> TestRom.len]
    /\ obs' = [call |-> "v11a_test_rom"]
    /\ UNCHANGED <<cpu, bus, calls, hist, emu, app, stalls>>

\* src/n64emuhdrv1.1a.py: N64EmuApp.tick in the main loop (running is never
\* cleared there)
V11aTick ==
    /\ obs.call \in V11aCalls \ {"v11a_init"}
    /\ cpu.cycles < (MaxAppFrames + 1) * FrameCycles
    /\ app.running
    /\ \E f \in {StepFrame(cpu, bus, memory, FALSE)} :
           /\ cpu' = f.cpu
           /\ memory' = f.memory
    /\ ret' = None
    /\ obs' = [call |-> "v11a_tick", wasRunning |-> app.running]
    /\ UNCHANGED <<bus, calls, hist, emu, app, stalls>>

\* src/N64EMU.py: the window's commands and its timer
EmuAppState == [app |-> app, emu |-> emu]

EmuAppCalls ==
    {"emu_app_init", "emu_main_load", "emu_open_rom", "emu_start", "emu_stop",
     "emu_pause", "emu_reset_system", "emu_tick"}

\* src/N64EMU.py: main with --rom
EmuAppMainLoad(r) ==
    /\ obs.call = "emu_app_init"
    /\ LET o == EmuMainLoad(EmuAppState, r)
       IN  /\ emu' = o.state.emu
           /\ obs' = [call |-> "emu_main_load", failed |-> ~r.ok, dialog |-> o.dialog]
    /\ ret' = None
    /\ UNCHANGED <<cpu, bus, memory, calls, hist, app, stalls>>

EmuAppOpenRom(r) ==
    /\ LET o == EmuOpenRom(EmuAppState, r)
       IN  /\ emu' = o.state.emu
           /\ obs' = [call |-> "emu_open_rom", failed |-> ~r.ok, dialog |-> o.dialog]
    /\ ret' = None
    /\ UNCHANGED <<cpu, bus, memory, calls, hist, app, stalls>>

EmuAppStart ==
    /\ LET t == EmuStart(EmuAppState)
       IN  /\ app' = t.app
           /\ emu' = t.emu
    /\ ret' = None
    /\ obs' = [call |-> "emu_start", wasRunning |-> app.running, frames |-> 0]
    /\ UNCHANGED <<cpu, bus, memory, calls, hist, stalls>>

EmuAppStop ==
    /\ LET t == EmuStop(EmuAppState)
       IN  /\ app' = t.app
           /\ emu' = t.emu
    /\ ret' = None
    /\ obs' = [call |-> "emu_stop", wasRunning |-> app.running, frames |-> 0]
    /\ UNCHANGED <<cpu, bus, memory, calls, hist, stalls>>

EmuAppPause ==
    /\ LET t == EmuPause(EmuAppState)
       IN  /\ app' = t.app
           /\ emu' = t.emu
    /\ ret' = None
    /\ obs' = [call |-> "emu_pause", wasRunning |-> app.running, frames |-> 0]
    /\ UNCHANGED <<cpu, bus, memory, calls, hist, stalls>>

EmuAppReset ==
    /\ LET t == EmuResetSystem(EmuAppState)
       IN  /\ app' = t.app
           /\ emu' = t.emu
    /\ ret' = None
    /\ obs' = [call |-> "emu_reset_system", wasRunning |-> app.running, frames |-> 0]
    /\ UNCHANGED <<cpu, bus, memory, calls, hist, stalls>>

\* The timer fires the oldest pending callback, which leaves the list;
\* elapsed says whether a second has passed since the last FPS update
EmuAppTick(elapsed) ==
    /\ app.jobs # <<>>
    /\ emu.cpu.cycles < MaxAppFrames * CyclesPerFrame
    /\ app.frame_count < MaxAppFrames
    /\ \E t \in {EmuTick([EmuAppState EXCEPT !.app.jobs = Tail(@)], elapsed)} :
           /\ app' = t.app
           /\ emu' = t.emu
           /\ obs' = [call |-> "emu_tick", wasRunning |-> app.running,
                      elapsed |-> elapsed,
                      frames |-> (t.emu.cpu.cycles - emu.cpu.cycles) \div CyclesPerFrame]
    /\ ret' = None
    /\ UNCHANGED <<cpu, bus, memory, calls, hist, stalls>>

InitApp ==
    /\ bus = SystemBus
    /\ memory = SystemMemory
    /\ ret = None
    /\ calls = 0
    /\ hist = NoHist
    /\ emu = N64EmuSystem
    /\ stalls = 0
    /\ \/ obs = [call |-> "app_init"] /\ cpu = R4300iCore /\ app = N64EmuApp
       \/ obs = [call |-> "v11a_init"] /\ cpu = V11aStart.cpu /\ app = V11aApp
       \/ obs = [call |-> "emu_app_init"] /\ cpu = R4300iCore /\ app = EmuAppFields

NextHdrApp ==
    \/ \E path \in Paths, r \in FileReads : AppLoadRomCall(path, r)
    \/ AppLoadRomReturnCall
    \/ MainTestRom
    \/ AppTogglePlay
    \/ AppPause
    \/ AppStop
    \/ AppReset
    \/ AppTick

NextV11aApp ==
    \/ \E path \in Paths, r \in FileReads : V11aMainLoadCall(path, r)
    \/ V11aTestRom
    \/ V11aTick

NextEmuApp ==
    \/ \E r \in FileReads : EmuAppMainLoad(r)
    \/ \E r \in FileReads : EmuAppOpenRom(r)
    \/ EmuAppStart
    \/ EmuAppStop
    \/ EmuAppPause
    \/ EmuAppReset
    \/ \E elapsed \in BOOLEAN : EmuAppTick(elapsed)

NextApp ==
    \/ obs.call \notin (V11aCalls \cup EmuAppCalls) /\ NextHdrApp
    \/ obs.call \in V11aCalls /\ NextV11aApp
    \/ obs.call \in EmuAppCalls /\ NextEmuApp

SpecApp == InitApp /\ [][NextApp]_vars

----------------------------------------------------------------------------
(* Claims about the PC, the fetch and the boot flag *)

\* C21: PC advance and return value of advance: every non-stalled advance
\* sets the PC to (PC + 4) mod 2^32 and returns the updated PC; a stalled
\* advance leaves the PC unchanged and returns None.
C21_AdvancePc ==
    [][ (obs'.call = "advance") =>
          IF cpu.pipeline.stall
          THEN /\ cpu'.registers.pc = cpu.registers.pc
               /\ ret' = None
          ELSE /\ cpu'.registers.pc = PcPlus4(cpu.registers.pc)
               /\ ret' = PcPlus4(cpu.registers.pc) ]_vars

\* A non-stalled advance has taken the PC from 0xFFFFFFFC to 0 and returned 0
C21_Witness ==
    /\ obs.call = "advance"
    /\ ~obs.stalled
    /\ cpu.registers.pc = Zero32
    /\ ret = Zero32

\* (pc - 4) & 0x1FFFFFFF, by cases on the borrow
FetchOf(pc) ==
    IF pc.l >= 4 THEN W32(pc.h % 8192, pc.l - 4)
    ELSE IF pc.h >= 1 THEN W32((pc.h - 1) % 8192, pc.l + 65532)
    ELSE W32(8191, pc.l + 65532)

\* C22: fetch address: each booted step reads one 32-bit word through the
\* bus at (pc - 4) & 0x1FFFFFFF, pc being the PC at the start of the step,
\* and passes the decode of the word to advance; when the advance of a step
\* was not stalled the next step fetches the next word, the first booted
\* step fetching at the entry vector (0x80000400, masked: 0x00000400).
C22_FetchAddress ==
    [][ (obs'.call = "step") =>
          /\ cpu.booted =>
                /\ obs'.fetched = <<FetchOf(cpu.registers.pc)>>
                /\ obs'.instr = Decode(obs'.word)
          /\ (obs.call = "step" /\ ~obs.stalled) =>
                obs'.fetched = IF obs.wasBooted
                               THEN <<Mask29(Add32(obs.fetched[1], 4))>>
                               ELSE <<W32(0, 1024)>> ]_vars

\* The third step after a reset has fetched at 0x80000404 (masked), the
\* second at 0x80000400
C22_Witness ==
    /\ obs.call = "step"
    /\ obs.wasBooted
    /\ cpu.cycles = 3
    /\ obs.fetched = <<W32(0, 1028)>>

\* C23: the booted flag is one-way: once a step has set it, it stays set
\* across every later step and step_frame, stalled or not, and only reset()
\* clears it; in every reachable state booted is true iff cycles >= 1.
C23_BootedOneWay ==
    [][ /\ cpu'.booted <=> (cpu'.cycles >= 1)
        /\ (cpu.booted /\ obs'.call # "reset") => cpu'.booted
        /\ (obs'.call = "reset") => ~cpu'.booted
        /\ (obs'.call \in {"step", "step_frame"}) => cpu'.booted ]_vars

\* A stalled step on a booted core has left it booted after a frame and more
C23_Witness ==
    /\ obs.call = "step"
    /\ obs.wasBooted
    /\ obs.stalled
    /\ cpu.booted
    /\ cpu.cycles > FrameCycles

----------------------------------------------------------------------------
(* Claims about the logger *)

\* C24: logger independence: from any state, step and step_frame with a
\* logger and with None leave the same CPU state (registers, PC, pipeline,
\* counters, booted), the same memory and return the same value: whatever
\* the logger of the call, its outcome is the outcome of the call with
\* None, and for a step also the outcome of the call with a logger.
C24_LoggerIndependence ==
    [][ /\ (obs'.call = "step") =>
              LET with == CoreStep(cpu, obs'.word, TRUE)
                  without == CoreStep(cpu, obs'.word, FALSE)
              IN  /\ cpu' = with.cpu /\ cpu' = without.cpu
                  /\ ret' = with.ret /\ ret' = without.ret
                  /\ memory' = memory
        /\ (obs'.call = "step_frame") =>
              /\ cpu' = StepFrame(cpu, bus, memory, FALSE).cpu
              /\ memory' = memory ]_vars

\* A frame run with a logger (it logged the boot message and two trace
\* lines) has ended
C24_Witness ==
    /\ obs.call = "step_frame"
    /\ Len(obs.logged) = 3
    /\ cpu.cycles = FrameCycles

\* (pc - 4 * k) mod 2^32 for 0 <= 4 * k < 2^16, by cases on the borrow
PcBack(pc, k) ==
    IF pc.l >= 4 * k THEN W32(pc.h, pc.l - 4 * k)
    ELSE IF pc.h >= 1 THEN W32(pc.h - 1, pc.l + 65536 - 4 * k)
    ELSE W32(65535, pc.l + 65536 - 4 * k)

\* The trace line of the step that ended with cycle count m, seen from a
\* later state of the same run of non-stalled steps
TraceLine(m) ==
    [line |-> "cycle", cycles |-> m, pc |-> PcBack(cpu.registers.pc, cpu.cycles - m)]

\* The first multiple of 500 above n
NextMark(n) == 500 * ((n \div 500) + 1)

\* C25: trace cadence: with a logger, a trace line with the cycle count and
\* the PC after the advance is emitted on every step after which the cycle
\* counter is a multiple of 500 and on no other step; the only other line is
\* the boot message of the first step after construction or reset; without
\* a logger nothing is emitted.
C25_TraceCadence ==
    LET boot == IF obs.wasBooted THEN <<>> ELSE <<[line |-> "booted"]>>
    IN  /\ (obs.call = "step" /\ obs.logger) =>
              obs.logged = boot \o (IF cpu.cycles % 500 = 0
                                    THEN <<TraceLine(cpu.cycles)>> ELSE <<>>)
        /\ (obs.call = "step_frame" /\ obs.logger) =>
              obs.logged = boot \o <<TraceLine(NextMark(obs.cyclesBefore)),
                                     TraceLine(NextMark(obs.cyclesBefore) + 500)>>
        /\ (obs.call \in {"step", "step_frame"} /\ ~obs.logger) =>
              obs.logged = <<>>

\* A frame with a logger, started on a booted core one cycle after the
\* boot, has logged the lines of cycles 500 and 1000 and no boot message
C25_Witness ==
    /\ obs.call = "step_frame"
    /\ obs.logger
    /\ obs.wasBooted
    /\ obs.cyclesBefore = 1
    /\ Len(obs.logged) = 2
    /\ obs.logged[1].cycles = 500
    /\ obs.logged[2].cycles = 1000

----------------------------------------------------------------------------
(* Claims about the decode, the exception flag and the fetch of a system *)

\* Bits hi..lo of the 16-bit half x, lo counted from the half's bit 0
Bits(x, hi, lo) == (x \div (2 ^ lo)) % (2 ^ (hi - lo + 1))

\* The five fields step decodes from the word w it fetched
FieldsOf(i, w) ==
    /\ i.opcode = Bits(w.h, 15, 10) /\ i.opcode \in 0 .. 63
    /\ i.rs = Bits(w.h, 9, 5) /\ i.rs \in 0 .. 31
    /\ i.rt = Bits(w.h, 4, 0) /\ i.rt \in 0 .. 31
    /\ i.rd = Bits(w.l, 15, 11) /\ i.rd \in 0 .. 31
    /\ i.immediate = w.l /\ i.immediate \in 0 .. 65535

\* C26: instruction decode: from a fetched word w the instruction has
\* opcode = bits 31..26, rs = bits 25..21, rt = bits 20..16, rd = bits
\* 15..11, immediate = bits 15..0 zero-extended, and a target field for
\* jump-type encodings extracted from w (bits 25..0).
C26_Decode ==
    (obs.call = "step" /\ obs.wasBooted) =>
        /\ FieldsOf(obs.instr, obs.word)
        /\ obs.instr.target = Bits(obs.word.h, 9, 0) * 65536 + obs.word.l

\* The five fields alone: what the code does decode
C26_FiveFields ==
    (obs.call = "step" /\ obs.wasBooted) => FieldsOf(obs.instr, obs.word)

\* C27: the pending-exception flag is never set: exception_pending is false
\* in every state reachable by step, step_frame, reset and load_rom.
C27_NoException == cpu.exception_pending = FALSE

\* A reset of a core that ran more than a frame with a ROM loaded
C27_Witness ==
    /\ obs.call = "reset"
    /\ obs.wasBooted
    /\ obs.cyclesBefore > FrameCycles
    /\ memory.rom.len > 0
    /\ cpu.exception_pending = FALSE

\* C29: in a system (memory registered on the bus at 0x80000000) the word
\* every booted step fetches is the big-endian word the memory holds at the
\* offset of the fetch address, so after load_rom(data) the instruction
\* entering the pipeline is the decode of the loaded word at that offset.
C29_FetchReadsMemory ==
    (obs.call = "step" /\ obs.wasBooted) =>
        /\ obs.word = MemRead(memory, obs.fetched[1])
        /\ obs.instr = Decode(MemRead(memory, obs.fetched[1]))

\* What the code does: the fetch address is below 0x20000000, no device has
\* such a key, and the bus answers 0 without calling the memory
C29_FetchReadsZero ==
    (obs.call = "step" /\ obs.wasBooted) =>
        /\ obs.word = Zero32
        /\ obs.invoked = <<>>
        /\ obs.instr = Instruction(0, 0, 0, 0, 0)

\* C30: under system-driven execution (load_rom with any image, reset, step
\* and step_frame through the bus; the stall flag may even be set) every
\* general-purpose register is 0 in every reachable state.
C30_RegistersStayZero == \A r \in Regs : cpu.registers.gpr[r] = Zero32

\* A frame has run on an image that holds addiu r1 <- r1 + 0x0805 at the
\* entry-vector offset, and register 1 is 0
C30_Witness ==
    /\ obs.call = "step_frame"
    /\ memory.rom = CodeRom
    /\ MemRead(memory, W32(0, 1024)) = W32(8225, 2053)
    /\ cpu.cycles >= FrameCycles
    /\ cpu.registers.gpr[1] = Zero32

----------------------------------------------------------------------------
(* Claim about a failed load, checked under SpecApp *)

\* C28: a failed ROM load (the read of the file raises) is reported and
\* leaves the core untouched: backing store, retained ROM image, bus map and
\* all CPU state, and the window's own state, are as before the attempt, and
\* the core keeps stepping: the tick that follows on a running window runs
\* a frame.
C28_FailedLoad ==
    [][ /\ (obs'.call \in {"app_load_rom", "main_load"} /\ obs'.failed) =>
              /\ obs'.dialog = [kind |-> "error", title |-> "Load Error"]
              /\ memory' = memory
              /\ bus' = bus
              /\ cpu' = cpu
              /\ app' = app
        /\ (/\ obs.call \in {"app_load_rom", "main_load"}
            /\ obs.failed
            /\ app.running
            /\ obs'.call \in {"tick", "v11a_tick"}) =>
              /\ cpu'.cycles = cpu.cycles + FrameCycles
              /\ memory' = memory ]_vars

\* A load has failed on a running window whose core has run a frame on a
\* loaded ROM
C28_Witness ==
    /\ obs.call = "app_load_rom"
    /\ obs.failed
    /\ app.running
    /\ cpu.cycles = FrameCycles
    /\ memory.rom = CodeRom

----------------------------------------------------------------------------
(* Claims about what stepping leaves alone and about the counters *)

\* C31: CPU stepping and reset never modify memory: across step, step_frame
\* and reset the backing store, the retained ROM image and the bus device
\* map are unchanged, and a step makes no write32 call.
C31_StepLeavesMemory ==
    [][ (obs'.call \in {"step", "step_frame", "reset"}) =>
          /\ memory' = memory
          /\ bus' = bus
          /\ (obs'.call = "step") => (obs'.writes = <<>>) ]_vars

\* A frame has run on a booted core over a loaded image, which is still
\* what the memory holds
C31_Witness ==
    /\ obs.call = "step_frame"
    /\ obs.wasBooted
    /\ memory.rom = CodeRom
    /\ MemRead(memory, W32(0, 1024)) = W32(8225, 2053)

\* C32: counter invariant: cycles = instructions_executed = the number of
\* step calls since construction or the last reset: both are 0 after
\* construction and reset, both go up by one on every step (the boot step
\* and stalled steps included) and by 1000 on a frame, and no other call
\* changes them.
C32_Counters ==
    [][ /\ (obs.call = "init") => (cpu.cycles = 0 /\ cpu.instructions_executed = 0)
        /\ cpu'.cycles = cpu'.instructions_executed
        /\ cpu'.cycles = CASE obs'.call = "step" -> cpu.cycles + 1
                           [] obs'.call = "step_frame" -> cpu.cycles + 1000
                           [] obs'.call = "reset" -> 0
                           [] OTHER -> cpu.cycles ]_vars

\* The second step after a reset was stalled and both counters are 2
C32_Witness ==
    /\ obs.call = "step"
    /\ obs.wasBooted
    /\ obs.stalled
    /\ cpu.cycles = 2
    /\ cpu.instructions_executed = 2

\* C33: PC closed form: after a reset (or construction) followed by n >= 1
\* steps of which s were stalled, PC = 0x80000400 + 4 * (n - s); before the
\* first step PC = 0xBFC00000.  (n = cycles; the sums reached stay below
\* 2^32.)
C33_PcClosedForm ==
    IF cpu.cycles = 0
    THEN cpu.registers.pc = W32(49088, 0)
    ELSE cpu.registers.pc = W32(32768, 1024 + 4 * (cpu.cycles - stalls))

\* A stalled step and then a stalled frame: 1001 steps, 2 of them stalled
C33_Witness ==
    /\ obs.call = "step_frame"
    /\ cpu.cycles = 1001
    /\ stalls = 2
    /\ cpu.registers.pc = W32(32768, 5020)

\* C34: stall loses no instruction: a booted step whose advance is stalled
\* leaves PC, registers and all pipeline stages unchanged (the counters go
\* up and the stall flag clears), so the next step fetches the same address
\* again; a step whose advance is not stalled moves the fetch address to the
\* next word, and nothing but a step, a frame or a reset moves it: each
\* fetch address's instruction enters the pipeline once, in address order.
C34_StallLosesNothing ==
    [][ /\ (obs'.call = "step" /\ cpu.booted) =>
              /\ obs'.fetched = <<FetchOf(cpu.registers.pc)>>
              /\ IF cpu.pipeline.stall
                 THEN /\ cpu'.registers = cpu.registers
                      /\ cpu'.pipeline.stages = cpu.pipeline.stages
                      /\ cpu'.pipeline.objs = cpu.pipeline.objs
                      /\ ~cpu'.pipeline.stall
                      /\ cpu'.cycles = cpu.cycles + 1
                      /\ FetchOf(cpu'.registers.pc) = obs'.fetched[1]
                 ELSE /\ FetchOf(cpu'.registers.pc) = Mask29(Add32(obs'.fetched[1], 4))
                      /\ Stage(cpu'.pipeline, 0).instr = obs'.instr
        /\ (obs'.call \notin {"step", "step_frame", "reset"}) =>
              cpu'.registers.pc = cpu.registers.pc ]_vars

\* The fourth step after a reset has fetched at 0x80000404 (masked) again,
\* the third, which fetched there, having been stalled
C34_Witness ==
    /\ obs.call = "step"
    /\ obs.wasBooted
    /\ ~obs.stalled
    /\ cpu.cycles = 4
    /\ stalls = 1
    /\ obs.fetched = <<W32(0, 1028)>>

----------------------------------------------------------------------------
(* Claim about what load_rom leaves alone, checked under SpecMem *)

\* C35: load_rom frame: load_rom(data) with len(data) < size changes only
\* the store offsets 0 .. len(data) - 1, which hold data; the bytes at
\* offsets >= len(data) (the tail of a longer image loaded before, earlier
\* writes), the store's length and all CPU state are unchanged, and the
\* retained image is the data loaded last.
C35_LoadRomFrame ==
    [][ (obs'.call = "load_rom" /\ obs'.data.len < memory.size) =>
          /\ \A i \in (DOMAIN memory.ram) \cup (DOMAIN memory'.ram)
                        \cup (0 .. (obs'.data.len - 1)) :
                RamByte(memory', i) = IF i < obs'.data.len
                                      THEN DataByte(obs'.data, i)
                                      ELSE RamByte(memory, i)
          /\ memory'.len = memory.len
          /\ memory'.size = memory.size
          /\ memory'.rom = obs'.data
          /\ cpu' = cpu
          /\ bus' = bus ]_vars

\* The three-byte image loaded over the eight-byte one: byte 5 is the
\* earlier image's, byte 2 the later one's
C35_Witness ==
    /\ obs.call = "load_rom"
    /\ obs.data = Bytes(<<0, 0, 9>>)
    /\ memory.rom = Bytes(<<0, 0, 9>>)
    /\ RamByte(memory, 0) = 0
    /\ RamByte(memory, 2) = 9
    /\ RamByte(memory, 5) = 255

----------------------------------------------------------------------------
(* Claim about the windows' timers, checked under SpecApp *)

\* The tick callbacks pending for the window, whichever of the two it is
PendingTicks ==
    IF obs.call \in EmuAppCalls THEN Len(app.jobs) ELSE app.pending

\* C36: single tick chain: whatever the sequence of Play, Pause, Stop, Reset
\* and load commands and timer firings, at most one tick callback is pending
\* at any time (so the timer runs step_frame at most once per period), and
\* no command or firing runs a frame on a window that was not running,
\* apart from the command that starts it.
C36_SingleTickChain ==
    (obs.call \notin V11aCalls) =>
        /\ PendingTicks <= 1
        /\ (obs.call \in {"tick", "emu_tick"} /\ ~obs.wasRunning) => (obs.frames = 0)

\* What the window of src/N64EMU.py does: at most one pending callback, none
\* when it is not running, and a firing runs a frame only when running
C36_EmuSingleChain ==
    (obs.call \in EmuAppCalls) =>
        /\ Len(app.jobs) <= 1
        /\ ~app.running => (app.jobs = <<>>)
        /\ (obs.call = "emu_tick" /\ ~obs.wasRunning) => (obs.frames = 0)

----------------------------------------------------------------------------
(* Claim about the core of src/N64EMU.py, checked under SpecFrames *)

\* The steps a call on the system of src/N64EMU.py runs
EmuStepsOf(call) ==
    IF call = "emu_step" THEN 1 ELSE IF call = "emu_step_frame" THEN CyclesPerFrame ELSE 0

\* C37: in the unpipelined variant, a step adds one to cycles, a frame adds
\* its 1562 steps and a reset returns them to 0, and neither a step nor a
\* frame changes the memory; so that n steps after a reset cycles and
\* instructions_executed are n, the PC is 0xA4000040 + 4n with nothing
\* taken off the high half, gpr[2] is floor(n / 100) and every other
\* general-purpose register is 0.
C37_UnpipelinedClosedForm ==
    /\ [][ (obs'.call \in EmuCalls) =>
             /\ emu'.cpu.cycles = IF obs'.call = "emu_reset" THEN 0
                                  ELSE emu.cpu.cycles + EmuStepsOf(obs'.call)
             /\ memory' = memory /\ emu'.memory = emu.memory ]_vars
    /\ [] ( (obs.call \in EmuCalls) =>
             LET n == emu.cpu.cycles
             IN  /\ emu.cpu.instructions_executed = n
                 /\ emu.cpu.registers.pc =
                        [h |-> 41984 + ((64 + 4 * n) \div Half), l |-> (64 + 4 * n) % Half]
                 /\ \A r \in Regs :
                        emu.cpu.registers.gpr[r] =
                            IF r = 2 THEN W32(0, n \div GprEvery) ELSE Zero32 )

C37_Witness ==
    /\ obs.call = "emu_step" /\ obs.cyclesBefore = 2 * CyclesPerFrame
    /\ emu.cpu.cycles = 3125 /\ emu.cpu.registers.gpr[2] = W32(0, 31)
    /\ emu.cpu.registers.pc = W32(41984, 12564)

----------------------------------------------------------------------------
(* Claim about the value step returns, checked under SpecWrap *)

\* C38: the value step returns is the PC the register file holds when step
\* returns, in every case: after a non-stalled advance, after a stalled
\* advance (which returned None) and after a non-stalled advance that took
\* the PC from 0xFFFFFFFC to 0.
C38_StepReturnsPc ==
    (obs.call = "step") =>
        /\ ret = cpu.registers.pc
        /\ ret # None

\* A booted core has stepped from 0xFFFFFFFC: the PC is 0 and step returned 0
C38_Witness ==
    /\ obs.call = "step" /\ obs.wasBooted /\ ~obs.stalled
    /\ cpu.cycles = WrapCycles + 1
    /\ cpu.registers.pc = Zero32
    /\ ret = Zero32

\* A stalled step has returned the PC it left where it was
C38_WitnessStalled ==
    /\ obs.call = "step" /\ obs.stalled /\ obs.wasBooted
    /\ ret = cpu.registers.pc

====
